---------------------------- MODULE Spec2Model ----------------------------
(***************************************************************************)
(* A model of RIssmed / RNAmediator: the folding entry points of           *)
(* Tweaks/RNAtweaks.py (api_rnaplfold, cmd_rnaplfold, api_rnafold,         *)
(* cmd_rnafold, with the constraint helpers they call) and the profile     *)
(* wrapper PLFoldOutput.                                                   *)
(*                                                                         *)
(* The folding engine (ViennaRNA) is external.  The model records what the *)
(* code hands to it: the sequence, window, span and region of the call,    *)
(* every position passed to hc_add_bp_nonspecific / hc_add_up / sc_add_up, *)
(* and every line of the command-line constraint file.                     *)
(*                                                                         *)
(* Python values: a str is a sequence of one-character strings, an         *)
(* optional int is <<>> (None) or <<n>>, an exception is the name of its   *)
(* class, "none" when nothing was raised.                                  *)
(***************************************************************************)
EXTENDS Integers, Sequences, FiniteSets, TLC

VARIABLES
    call,             \* the entry point of the last call, "none" before any
    args,             \* the arguments of that call
    fc,               \* the fold compound of the call: what was added to it
    constraint_file,  \* cmd_*: the lines written to the constraint file
    engine,           \* what the engine was invoked with, if it was
    raised,           \* the exception the call ended with, "none" if none
    profile,          \* a PLFoldOutput object, <<>> while there is none
    built,            \* what the profile was constructed from
    op,               \* the last operation on the profile and its outcome
    foldout,          \* a FoldOutput object, <<>> while there is none
    fo_op,            \* the last operation on the FoldOutput and its outcome
    sel,              \* the last call of a region selector and its outcome
    run,              \* a run of scan_input: its tracks and worker results
    bed               \* a run of screen_genes: its pool workers and files

fvars == <<call, args, fc, constraint_file, engine, raised>>

pvars == <<profile, built, op>>

ovars == <<foldout, fo_op>>

svars == <<sel>>

rvars == <<run>>

bvars == <<bed>>

vars == <<call, args, fc, constraint_file, engine, raised, profile, built, op,
          foldout, fo_op, sel, run, bed>>

\* what the operations of one part leave alone
other_than_f == <<pvars, ovars, svars, rvars, bvars>>
other_than_p == <<fvars, ovars, svars, rvars, bvars>>
other_than_o == <<fvars, pvars, svars, rvars, bvars>>
other_than_s == <<fvars, pvars, ovars, rvars, bvars>>
other_than_r == <<fvars, pvars, ovars, svars, bvars>>
other_than_b == <<fvars, pvars, ovars, svars, rvars>>

---------------------------------------------------------------------------
(* Bounds of the inputs.                                                   *)

MaxSeqLen == 3
MaxWindow == 4

---------------------------------------------------------------------------
(* Python helpers.                                                         *)

\* range(a, b)
Range(a, b) == a .. (b - 1)

\* an optional argument: None, or a value
NoneVal == <<>>
Some(n) == <<n>>

\* truth value of an optional int: `if fstart and fend`
Truthy(o) == o # NoneVal /\ o[1] # 0

Min(a, b) == IF a < b THEN a ELSE b

\* str.upper() on one character of the alphabet
Upper(c) ==
    CASE c = "a" -> "A"
      [] c = "c" -> "C"
      [] c = "g" -> "G"
      [] c = "u" -> "U"
      [] c = "t" -> "T"
      [] OTHER -> c

\* sequence.upper().replace("T", "U")
Normalize(sequence) ==
    [i \in 1 .. Len(sequence) |->
        IF Upper(sequence[i]) = "T" THEN "U" ELSE Upper(sequence[i])]

\* str(None)
StrNone == <<"N", "o", "n", "e">>


---------------------------------------------------------------------------
(* Constraint helpers of RNAtweaks.py.                                     *)

\* A variant of _check_constraint that clamps the bounds in silence.
check_constraint_clamp(sequence_length, start, end) ==
    LET s == IF start < 0 THEN 0 ELSE start
        e == IF end > sequence_length THEN sequence_length ELSE end
    IN [raised |-> "none", start |-> s, end |-> IF e < s THEN s ELSE e]

\* _check_constraint(sequence_length, start, end): raises ValueError or
\* returns; start and end are left as they were passed.
check_constraint(sequence_length, start, end) ==
    IF start > end
    THEN [raised |-> "ValueError", start |-> start, end |-> end]
    ELSE IF start < 0
    THEN [raised |-> "ValueError", start |-> start, end |-> end]
    ELSE IF sequence_length < end
    THEN [raised |-> "ValueError", start |-> start, end |-> end]
    ELSE [raised |-> "none", start |-> start, end |-> end]

\* A fold compound: its sequence and the positions handed to
\* hc_add_bp_nonspecific (hc_bp), hc_add_up (hc_up) and sc_add_up (sc_up,
\* with the soft value).
fold_compound(sequence) ==
    [sequence |-> sequence, hc_bp |-> {}, hc_up |-> {}, sc_up |-> {}]

NoFc == [sequence |-> <<>>, hc_bp |-> {}, hc_up |-> {}, sc_up |-> {}]

\* _constrain_paired(fc, start, end, fstart=None, fend=None)
constrain_paired(f, start, end, fstart, fend) ==
    [f EXCEPT !.hc_bp =
        @ \cup Range(start + 1, end + 1)
          \cup (IF Truthy(fstart) /\ Truthy(fend)
                THEN Range(fstart[1] + 1, fend[1] + 1)
                ELSE {})]

\* _constrain_unpaired(fc, start, end, fstart=None, fend=None)
constrain_unpaired(f, start, end, fstart, fend) ==
    [f EXCEPT !.hc_up =
        @ \cup Range(start + 1, end + 1)
          \cup (IF Truthy(fstart) /\ Truthy(fend)
                THEN Range(fstart[1] + 1, fend[1] + 1)
                ELSE {})]

\* _constrain_unpaired_soft(fc, start, end, value, fstart=None, fend=None)
constrain_unpaired_soft(f, start, end, value, fstart, fend) ==
    [f EXCEPT !.sc_up =
        @ \cup {<<x, value>> : x \in Range(start + 1, end + 1)}
          \cup (IF Truthy(fstart) /\ Truthy(fend)
                THEN {<<x, value>> : x \in Range(fstart[1] + 1, fend[1] + 1)}
                ELSE {})]

\* seq[x] = v of a Python list: IndexError outside -len .. len-1, a negative
\* index counts from the end.
RECURSIVE mutate_loop(_, _, _, _, _)
mutate_loop(seq, x, end, start, value) ==
    IF x >= end
    THEN [ok |-> TRUE, seq |-> seq]
    ELSE IF x >= Len(seq) \/ x < -Len(seq) \/ x - start >= Len(value)
                          \/ x - start < -Len(value)
    THEN [ok |-> FALSE, seq |-> seq]
    ELSE LET i == IF x >= 0 THEN x + 1 ELSE Len(seq) + x + 1
             j == IF x - start >= 0 THEN x - start + 1
                                    ELSE Len(value) + (x - start) + 1
         IN mutate_loop([seq EXCEPT ![i] = value[j]], x + 1, end, start, value)

\* _mutate(sequence, start, end, value) with fstart = fend = None, as both
\* callers call it: the mutated string, or None (ok = FALSE) when the loop
\* raised, which _mutate catches and logs.
mutate(sequence, start, end, value) ==
    mutate_loop(sequence, start, end, start, value)

\* str(_mutate(...)): "None" when _mutate returned None
str_mutate(sequence, start, end, value) ==
    LET m == mutate(sequence, start, end, value)
    IN IF m.ok THEN m.seq ELSE StrNone

\* A variant of the window and span check that compares the span with the
\* window as passed, not as shrunk.
clamp_window_span_unshrunk(window, span, seqlen) ==
    LET w == IF window > seqlen THEN seqlen ELSE window
        s == IF span > window THEN window ELSE span
    IN [window |-> w, span |-> s,
        warned |-> (window > seqlen) \/ (span > window)]

\* The window and span check of api_rnaplfold and cmd_rnaplfold.
clamp_window_span(window, span, seqlen) ==
    LET w == IF window > seqlen THEN seqlen ELSE window
        s == IF span > w THEN w ELSE span
    IN [window |-> w, span |-> s,
        warned |-> (window > seqlen) \/ (span > w)]

---------------------------------------------------------------------------
(* The windowed entry points.  A constraint argument is None or a list of  *)
(* entries (mode, start, end): [given |-> FALSE, entries |-> <<>>] is None.*)

\* One pass of the loop `for entry in constraint` of api_rnaplfold.  st is
\* [sequence, fc, raised]; md is not touched by the loop.
api_rnaplfold_entry(st, entry, seqlen, constype, consval) ==
    LET mode  == IF constype \in {"hard", "soft"} THEN entry.mode ELSE "mutate"
        chk   == check_constraint(seqlen, entry.start, entry.end)
        start == chk.start
        end   == chk.end
        value == consval
    IN IF chk.raised # "none"
       THEN [st EXCEPT !.raised = chk.raised]
       ELSE IF mode = "paired" \/ (mode = "p" /\ constype = "hard")
       THEN [st EXCEPT !.fc = constrain_paired(st.fc, start, end, NoneVal, NoneVal)]
       ELSE IF mode = "unpaired" \/ (mode = "u" /\ constype = "hard")
       THEN [st EXCEPT !.fc = constrain_unpaired(st.fc, start, end, NoneVal, NoneVal)]
       ELSE IF mode = "mutate"
       THEN LET m == str_mutate(st.sequence, start, end - 1, value)
            IN [st EXCEPT !.sequence = m, !.fc = fold_compound(m)]
       ELSE IF mode = "unpaired" \/ (mode = "u" /\ constype = "soft")
       THEN [st EXCEPT !.fc =
                constrain_unpaired_soft(st.fc, start, end, value, NoneVal, NoneVal)]
       ELSE IF mode = "paired" \/ (mode = "p" /\ constype = "soft")
       THEN [st EXCEPT !.raised = "NotImplementedError"]
       ELSE [st EXCEPT !.raised = "ValueError"]

RECURSIVE api_rnaplfold_loop(_, _, _, _, _)
api_rnaplfold_loop(st, entries, seqlen, constype, consval) ==
    IF entries = <<>> \/ st.raised # "none"
    THEN st
    ELSE api_rnaplfold_loop(
             api_rnaplfold_entry(st, Head(entries), seqlen, constype, consval),
             Tail(entries), seqlen, constype, consval)

\* api_rnaplfold up to the call of the engine (fc.probs_window).
api_rnaplfold_run(sequence, window, span, region, constype, consval, constraint) ==
    LET seq0 == Normalize(sequence)
        md   == clamp_window_span(window, span, Len(seq0))
        st0  == [sequence |-> seq0, fc |-> fold_compound(seq0), raised |-> "none"]
        st   == IF constraint.given
                THEN api_rnaplfold_loop(st0, constraint.entries, Len(seq0),
                                        constype, consval)
                ELSE st0
    IN [fc     |-> st.fc,
        file   |-> <<>>,
        raised |-> st.raised,
        engine |-> IF st.raised = "none"
                   THEN [called |-> TRUE, sequence |-> st.fc.sequence,
                         window |-> md.window, span |-> md.span,
                         region |-> region]
                   ELSE [called |-> FALSE]]

\* One pass of the loop of cmd_rnaplfold.  st is
\* [sequence, constraint_string, raised]; a line of the constraint string
\* is (const, start + 1, 0, end - start).
cmd_rnaplfold_entry(st, entry, seqlen, constype, consval) ==
    LET mode  == IF constype \in {"hard", "soft"} THEN entry.mode ELSE "mutate"
        chk   == check_constraint(seqlen, entry.start, entry.end)
        start == chk.start
        end   == chk.end
        value == consval
        line(const) == <<const, start + 1, 0, end - start>>
    IN IF chk.raised # "none"
       THEN [st EXCEPT !.raised = chk.raised]
       ELSE IF mode = "paired" \/ mode = "p"
       THEN [st EXCEPT !.constraint_string = Append(@, line("F"))]
       ELSE IF mode = "unpaired" \/ mode = "u"
       THEN [st EXCEPT !.constraint_string = Append(@, line("P"))]
       ELSE IF mode = "mutate"
       THEN [st EXCEPT !.sequence = str_mutate(st.sequence, start, end - 1, value)]
       ELSE IF (mode = "unpaired" \/ mode = "u") /\ constype = "soft"
       THEN [st EXCEPT !.constraint_string = Append(@, line("E"))]
       ELSE IF (mode = "paired" \/ mode = "p") /\ constype = "soft"
       THEN [st EXCEPT !.raised = "NotImplementedError"]
       ELSE [st EXCEPT !.raised = "ValueError"]

RECURSIVE cmd_rnaplfold_loop(_, _, _, _, _)
cmd_rnaplfold_loop(st, entries, seqlen, constype, consval) ==
    IF entries = <<>> \/ st.raised # "none"
    THEN st
    ELSE cmd_rnaplfold_loop(
             cmd_rnaplfold_entry(st, Head(entries), seqlen, constype, consval),
             Tail(entries), seqlen, constype, consval)

\* cmd_rnaplfold up to the call of the engine (subprocess RNAplfold).  The
\* constraint file is written after the loop, the window and span are
\* checked against the sequence as the loop left it.
cmd_rnaplfold_run(sequence, window, span, region, constype, consval, constraint) ==
    LET st0 == [sequence |-> sequence, constraint_string |-> <<>>,
                raised |-> "none"]
        st  == IF constraint.given
               THEN cmd_rnaplfold_loop(st0, constraint.entries, Len(sequence),
                                       constype, consval)
               ELSE st0
        md  == clamp_window_span(window, span, Len(st.sequence))
    IN [fc     |-> NoFc,
        file   |-> IF st.raised = "none" THEN st.constraint_string ELSE <<>>,
        raised |-> st.raised,
        engine |-> IF st.raised = "none"
                   THEN [called |-> TRUE, sequence |-> st.sequence,
                         window |-> md.window, span |-> md.span,
                         region |-> region]
                   ELSE [called |-> FALSE]]

---------------------------------------------------------------------------
(* The whole-sequence entry points.  An entry of api_rnafold is (mode,     *)
(* fstart, fend) or (mode, fstart, fend, start, end): start and end are    *)
(* None for the short form.                                                *)

\* The branches of api_rnafold's loop body up to printcons.  Arithmetic on
\* a missing second region (start + 1 with start None) is a TypeError:
\* inside _constrain_* it is caught and logged and fc becomes None, in the
\* printcons expression that follows it ends the call.
api_rnafold_entry(st, entry) ==
    LET mode   == entry.mode
        fstart == entry.fstart
        fend   == entry.fend
        start  == entry.start
        end    == entry.end
        second == start # NoneVal /\ end # NoneVal
    IN IF mode \in {"paired", "p", "constraint_paired"}
       THEN [st EXCEPT !.fc = constrain_paired(st.fc, fstart, fend, NoneVal, NoneVal),
                       !.mode = "constraint_paired"]
       ELSE IF mode = "secondconstraint_paired"
       THEN IF second
            THEN [st EXCEPT !.fc = constrain_paired(st.fc, start[1], end[1],
                                                     NoneVal, NoneVal),
                            !.mode = mode]
            ELSE [st EXCEPT !.raised = "TypeError"]
       ELSE IF mode = "bothconstraint_paired"
       THEN IF second
            THEN [st EXCEPT !.fc = constrain_paired(st.fc, fstart, fend, start, end),
                            !.mode = mode]
            ELSE [st EXCEPT !.fc = constrain_paired(st.fc, fstart, fend, start, end),
                            !.raised = "TypeError"]
       ELSE IF mode \in {"unpaired", "u", "constraint_unpaired"}
       THEN [st EXCEPT !.fc = constrain_unpaired(st.fc, fstart, fend, NoneVal, NoneVal),
                       !.mode = "constraint_unpaired"]
       ELSE IF mode = "secondconstraint_unpaired"
       THEN IF second
            THEN [st EXCEPT !.fc = constrain_unpaired(st.fc, start[1], end[1],
                                                       NoneVal, NoneVal),
                            !.mode = mode]
            ELSE [st EXCEPT !.raised = "TypeError"]
       ELSE IF mode = "bothconstraint_unpaired"
       THEN IF second
            THEN [st EXCEPT !.fc = constrain_unpaired(st.fc, fstart, fend,
                                                       start, Some(fend)),
                            !.mode = mode]
            ELSE [st EXCEPT !.fc = constrain_unpaired(st.fc, fstart, fend,
                                                       start, Some(fend)),
                            !.raised = "TypeError"]
       ELSE [st EXCEPT !.raised = "ValueError"]

\* The conditions FoldOutput accepts (the assertion of __init__ and of
\* from_rnamediator_fold_compound).
FoldConditions ==
    {"unconstrained", "constraint", "pairedconstraint",
     "constraint_unpaired", "constraint_paired",
     "secondconstraint_unpaired", "secondconstraint_paired",
     "bothconstraint_unpaired", "bothconstraint_paired"}

\* `if not FoldOut: FoldOut = FoldOutput("none", mode)` and the fold that
\* follows: the first positional parameter of FoldOutput is the condition,
\* and "none" is not one of FoldConditions.
api_rnafold_fold(st, has_foldout) ==
    IF st.raised # "none"
    THEN st
    ELSE IF ~has_foldout /\ "none" \notin FoldConditions
    THEN [st EXCEPT !.raised = "AssertionError"]
    ELSE IF st.mode \notin FoldConditions
    THEN [st EXCEPT !.raised = "AssertionError"]
    ELSE [st EXCEPT !.folded = Append(@, st.mode)]

RECURSIVE api_rnafold_loop(_, _, _)
api_rnafold_loop(st, entries, has_foldout) ==
    IF entries = <<>> \/ st.raised # "none"
    THEN st
    ELSE api_rnafold_loop(
             api_rnafold_fold(api_rnafold_entry(st, Head(entries)),
                              has_foldout \/ st.folded # <<>>),
             Tail(entries), has_foldout)

\* api_rnafold up to the folds of the engine.
api_rnafold_run(sequence, span, constraint, has_foldout) ==
    LET st0 == [fc |-> fold_compound(sequence), mode |-> "unconstrained",
                folded |-> <<>>, raised |-> "none"]
        st  == IF constraint.given
               THEN api_rnafold_loop(st0, constraint.entries, has_foldout)
               ELSE api_rnafold_fold(st0, has_foldout)
    IN [fc     |-> st.fc,
        file   |-> <<>>,
        raised |-> st.raised,
        engine |-> IF st.folded # <<>>
                   THEN [called |-> TRUE, sequence |-> st.fc.sequence,
                         span |-> span, conditions |-> st.folded]
                   ELSE [called |-> FALSE]]

\* One pass of the loop of cmd_rnafold.
cmd_rnafold_entry(st, entry) ==
    LET mode  == entry.mode
        start == entry.start
        end   == entry.end
        line(const) == <<const, start + 1, 0, end - start>>
    IN IF mode = "paired" \/ mode = "p"
       THEN [st EXCEPT !.constraint_string = Append(@, line("F"))]
       ELSE IF mode = "unpaired" \/ mode = "u"
       THEN [st EXCEPT !.constraint_string = Append(@, line("P"))]
       ELSE [st EXCEPT !.raised = "ValueError"]

RECURSIVE cmd_rnafold_loop(_, _)
cmd_rnafold_loop(st, entries) ==
    IF entries = <<>> \/ st.raised # "none"
    THEN st
    ELSE cmd_rnafold_loop(cmd_rnafold_entry(st, Head(entries)), Tail(entries))

\* cmd_rnafold: the constraint file is written, RNAfold is run, and the
\* result is read with FoldOutput.from_RNAfold_file, whose assertions fail
\* (RNAfold writes no sequence_0001_lunp, and cls(file_data, condition,
\* gibbs) passes the file's lines as the condition).
cmd_rnafold_run(sequence, span, constraint) ==
    LET st0 == [constraint_string |-> <<>>, raised |-> "none"]
        st  == IF constraint.given
               THEN cmd_rnafold_loop(st0, constraint.entries)
               ELSE st0
    IN [fc     |-> NoFc,
        file   |-> IF st.raised = "none" THEN st.constraint_string ELSE <<>>,
        raised |-> IF st.raised = "none" THEN "AssertionError" ELSE st.raised,
        engine |-> IF st.raised = "none"
                   THEN [called |-> TRUE, sequence |-> sequence, span |-> span]
                   ELSE [called |-> FALSE]]

---------------------------------------------------------------------------
(* The inputs of the calls.                                                *)

\* "t" exercises upper() and the replacement of T by U
SeqAlphabet == {"A", "t"}

\* the sequences of one repeated letter, of every length up to MaxSeqLen
Sequences == {[i \in 1 .. k |-> c] : k \in 0 .. MaxSeqLen, c \in SeqAlphabet}

Windows == 1 .. MaxWindow

\* the span of a whole-sequence fold is handed through to the engine
WholeSpans == {1, MaxWindow}

\* a small region and one as large as the largest window
Regions == {1, MaxWindow}

\* replacement strings C, CG, CGC, ... of every length up to the longest
\* sequence
MutValues == {[i \in 1 .. k |-> IF i % 2 = 1 THEN "C" ELSE "G"] : k \in 0 .. MaxSeqLen}

\* the soft value handed to sc_add_up
SoftValue == 2

\* (constype, consval) pairs: consval is ignored for "hard"
ConsTypes ==
    {<<"hard", <<>>>>, <<"soft", SoftValue>>}
        \cup {<<"mutate", v>> : v \in MutValues}

Starts == -1 .. MaxSeqLen
Ends   == -1 .. (MaxSeqLen + 1)

WindowModes == {"paired", "p", "unpaired", "u", "bad"}

WindowEntries == [mode : WindowModes, start : Starts, end : Ends]

\* None, the empty list, or a list of one entry
ConstraintArgs(entries) ==
    {[given |-> FALSE, entries |-> <<>>], [given |-> TRUE, entries |-> <<>>]}
        \cup {[given |-> TRUE, entries |-> <<e>>] : e \in entries}

\* whole-sequence folds do not read the letters
WholeSequences == {[i \in 1 .. k |-> "A"] : k \in 0 .. MaxSeqLen}

WholeModes ==
    {"paired", "p", "constraint_paired", "secondconstraint_paired",
     "bothconstraint_paired", "unpaired", "u", "constraint_unpaired",
     "secondconstraint_unpaired", "bothconstraint_unpaired", "bad"}

WholeEntries ==
    [mode : WholeModes, fstart : Starts, fend : Ends,
     start : {NoneVal}, end : {NoneVal}]
        \cup [mode : WholeModes, fstart : Starts, fend : Ends,
              start : {Some(n) : n \in Starts}, end : {Some(n) : n \in Ends}]

CmdFoldEntries == [mode : {"paired", "u", "bad"}, start : Starts, end : Ends]

---------------------------------------------------------------------------
(* The calls.  Each call runs from the idle state and leaves its outcome   *)
(* in the state; Return drops it.                                          *)

Finish(name, a, r) ==
    /\ call' = name
    /\ args' = a
    /\ fc' = r.fc
    /\ constraint_file' = r.file
    /\ engine' = r.engine
    /\ raised' = r.raised
    /\ UNCHANGED other_than_f

call_check_constraint ==
    /\ call = "none"
    /\ \E n \in 0 .. MaxSeqLen, start \in Starts, end \in Ends :
           LET chk == check_constraint(n, start, end)
           IN Finish("_check_constraint",
                     [sequence_length |-> n, start |-> start, end |-> end,
                      start_after |-> chk.start, end_after |-> chk.end],
                     [fc |-> NoFc, file |-> <<>>, raised |-> chk.raised,
                      engine |-> [called |-> FALSE]])

api_rnaplfold ==
    /\ call = "none"
    /\ \E sequence \in Sequences, window \in Windows, span \in Windows,
          region \in Regions, ct \in ConsTypes,
          constraint \in ConstraintArgs(WindowEntries) :
           Finish("api_rnaplfold",
                  [sequence |-> sequence, window |-> window, span |-> span,
                   region |-> region, constype |-> ct[1], consval |-> ct[2],
                   constraint |-> constraint],
                  api_rnaplfold_run(sequence, window, span, region,
                                    ct[1], ct[2], constraint))

cmd_rnaplfold ==
    /\ call = "none"
    /\ \E sequence \in Sequences, window \in Windows, span \in Windows,
          region \in Regions, ct \in ConsTypes,
          constraint \in ConstraintArgs(WindowEntries) :
           Finish("cmd_rnaplfold",
                  [sequence |-> sequence, window |-> window, span |-> span,
                   region |-> region, constype |-> ct[1], consval |-> ct[2],
                   constraint |-> constraint],
                  cmd_rnaplfold_run(sequence, window, span, region,
                                    ct[1], ct[2], constraint))

api_rnafold ==
    /\ call = "none"
    /\ \E sequence \in WholeSequences, span \in WholeSpans,
          constraint \in ConstraintArgs(WholeEntries), has_foldout \in BOOLEAN :
           Finish("api_rnafold",
                  [sequence |-> sequence, span |-> span,
                   constraint |-> constraint, FoldOut |-> has_foldout],
                  api_rnafold_run(sequence, span, constraint, has_foldout))

cmd_rnafold ==
    /\ call = "none"
    /\ \E sequence \in WholeSequences, span \in WholeSpans,
          constraint \in ConstraintArgs(CmdFoldEntries) :
           Finish("cmd_rnafold",
                  [sequence |-> sequence, span |-> span,
                   constraint |-> constraint],
                  cmd_rnafold_run(sequence, span, constraint))

Idle ==
    /\ call = "none"
    /\ args = <<>>
    /\ fc = NoFc
    /\ constraint_file = <<>>
    /\ engine = [called |-> FALSE]
    /\ raised = "none"
    /\ profile = <<>>
    /\ built = [by |-> "none"]
    /\ op = [name |-> "none"]
    /\ foldout = <<>>
    /\ fo_op = [name |-> "none"]
    /\ sel = [name |-> "none"]
    /\ run = [phase |-> "none"]
    /\ bed = [phase |-> "none"]

Return ==
    /\ call # "none"
    /\ call' = "none"
    /\ args' = <<>>
    /\ fc' = NoFc
    /\ constraint_file' = <<>>
    /\ engine' = [called |-> FALSE]
    /\ raised' = "none"
    /\ UNCHANGED other_than_f

Init == Idle

Next ==
    \/ call_check_constraint
    \/ api_rnaplfold
    \/ cmd_rnaplfold
    \/ api_rnafold
    \/ cmd_rnafold
    \/ Return

Spec == Init /\ [][Next]_vars

---------------------------------------------------------------------------
(* Properties of the folding entry points.                                 *)

Windowed == call \in {"api_rnaplfold", "cmd_rnaplfold"}

\* the call had a constraint list of exactly one entry
OneEntry == args.constraint.given /\ Len(args.constraint.entries) = 1

TheEntry == args.constraint.entries[1]

InBounds(n, start, end) == 0 <= start /\ start <= end /\ end <= n

NothingApplied ==
    /\ fc.hc_bp = {} /\ fc.hc_up = {} /\ fc.sc_up = {}
    /\ constraint_file = <<>>

\* C1: _check_constraint(sequence_length, start, end) raises exactly when
\* start > end, start < 0 or end > sequence_length, and leaves start and end
\* as passed: a direct call raises iff the bounds are out of range, and a
\* windowed fold with one hard constraint in range applies exactly the
\* region [start, end) it was given (positions start+1 .. end, or the line
\* start+1, 0, end-start of the constraint file).
C1_CheckConstraintExact ==
    /\ call = "_check_constraint" =>
          /\ (raised = "ValueError") <=>
                 ~InBounds(args.sequence_length, args.start, args.end)
          /\ raised \in {"ValueError", "none"}
          /\ args.start_after = args.start
          /\ args.end_after = args.end
    /\ (Windowed /\ OneEntry /\ args.constype = "hard"
            /\ TheEntry.mode \in {"paired", "unpaired"}) =>
          IF InBounds(Len(args.sequence), TheEntry.start, TheEntry.end)
          THEN /\ raised = "none"
               /\ call = "api_rnaplfold" =>
                     (fc.hc_bp \cup fc.hc_up) = (TheEntry.start + 1) .. TheEntry.end
               /\ call = "cmd_rnaplfold" =>
                     /\ Len(constraint_file) = 1
                     /\ constraint_file[1][2] = TheEntry.start + 1
                     /\ constraint_file[1][4] = TheEntry.end - TheEntry.start
          ELSE raised = "ValueError" /\ NothingApplied

\* C1 witness: a direct call with the whole sequence as the region
\* (end == sequence_length) returned without raising.
C1_Witness ==
    /\ call = "_check_constraint"
    /\ args.start = 0
    /\ args.end = args.sequence_length
    /\ args.sequence_length > 0
    /\ raised = "none"

\* the bounds a whole-sequence entry asks the engine to constrain
FirstRegionModes ==
    {"paired", "p", "constraint_paired", "unpaired", "u", "constraint_unpaired"}

\* C2: every folding entry point that accepts constraints rejects a
\* constraint whose bounds fall outside [0, sequence_length] (or with
\* start > end) with an error before anything is applied to the folding
\* model, written to the constraint file or handed to the engine.
C2_OutOfBoundsRejected ==
    /\ (Windowed /\ OneEntry
            /\ ~InBounds(Len(args.sequence), TheEntry.start, TheEntry.end)) =>
          raised # "none" /\ NothingApplied /\ ~engine.called
    /\ (call = "cmd_rnafold" /\ OneEntry
            /\ ~InBounds(Len(args.sequence), TheEntry.start, TheEntry.end)) =>
          raised # "none" /\ NothingApplied /\ ~engine.called
    /\ (call = "api_rnafold" /\ OneEntry
            /\ TheEntry.mode \in FirstRegionModes
            /\ ~InBounds(Len(args.sequence), TheEntry.fstart, TheEntry.fend)) =>
          raised # "none" /\ NothingApplied /\ ~engine.called

\* C3: a soft paired constraint ('paired' or 'p' with constype 'soft', a
\* region in range that is not empty) ends api_rnaplfold and cmd_rnaplfold
\* with NotImplementedError, and nothing has been added to the folding
\* model or the constraint file.
C3_SoftPairedNotSupported ==
    (Windowed /\ OneEntry /\ args.constype = "soft"
        /\ TheEntry.mode \in {"paired", "p"}
        /\ InBounds(Len(args.sequence), TheEntry.start, TheEntry.end)
        /\ TheEntry.start < TheEntry.end) =>
       raised = "NotImplementedError" /\ NothingApplied /\ ~engine.called

\* the sequence a windowed entry point starts from
InputSequence ==
    IF call = "api_rnaplfold" THEN Normalize(args.sequence) ELSE args.sequence

\* the input with r[i - start] at every zero-based index i of [start, end)
Substituted(sequence, start, end, r) ==
    [i \in 1 .. Len(sequence) |->
        IF start <= i - 1 /\ i - 1 < end THEN r[i - start] ELSE sequence[i]]

\* C4: a windowed fold with constype 'mutate', a region [start, end) in
\* range and a replacement of length end - start folds the input sequence
\* with r[i - start] at every i of [start, end) and every other position
\* unchanged.
C4_MutationSubstitutesRegion ==
    (Windowed /\ OneEntry /\ args.constype = "mutate"
        /\ InBounds(Len(args.sequence), TheEntry.start, TheEntry.end)
        /\ Len(args.consval) = TheEntry.end - TheEntry.start) =>
       /\ engine.called
       /\ Len(engine.sequence) = Len(args.sequence)
       /\ engine.sequence =
              Substituted(InputSequence, TheEntry.start, TheEntry.end, args.consval)

\* C5: a two-region hard constraint of api_rnafold with disjoint regions
\* [fstart, fend) and [start, end) in range constrains exactly the positions
\* fstart+1 .. fend and start+1 .. end, with the paired rule for
\* bothconstraint_paired and the unpaired rule for bothconstraint_unpaired.
C5_BothRegionsConstrained ==
    (call = "api_rnafold" /\ OneEntry
        /\ TheEntry.mode \in {"bothconstraint_paired", "bothconstraint_unpaired"}
        /\ TheEntry.start # NoneVal /\ TheEntry.end # NoneVal) =>
       LET n == Len(args.sequence)
           fstart == TheEntry.fstart
           fend == TheEntry.fend
           start == TheEntry.start[1]
           end == TheEntry.end[1]
           both == ((fstart + 1) .. fend) \cup ((start + 1) .. end)
       IN (InBounds(n, fstart, fend) /\ InBounds(n, start, end)
              /\ (fend <= start \/ end <= fstart)) =>
             IF TheEntry.mode = "bothconstraint_paired"
             THEN fc.hc_bp = both /\ fc.hc_up = {}
             ELSE fc.hc_up = both /\ fc.hc_bp = {}

\* the length of the sequence the window check reads: api_rnaplfold checks
\* before the constraints are applied, cmd_rnaplfold after them
CheckedLength ==
    IF call = "api_rnaplfold" THEN Len(Normalize(args.sequence))
    ELSE Len(engine.sequence)

---------------------------------------------------------------------------
(* PLFoldOutput.  A text is modelled by its split("\n"): a non-empty       *)
(* sequence of lines, each line by its split("\t"): a non-empty sequence   *)
(* of fields, each a string without tab or newline ("" is <<<<"">>>>).     *)
(* A number is a count of 1e-8 (0.5 is 50000000); a cell of an array is    *)
(* <<n>> for the number n or <<>> for NaN.  An array is its shape and its  *)
(* cells in row-major order.                                               *)

MaxRows == 2
MaxCols == 2
MaxLines == 3

\* round(7) in __array_to_string, atol=0.0000001 in __eq__ (in units of 1e-8)
RoundDigits == 7
Atol == 10

NaN == <<>>

RECURSIVE Pow10(_)
Pow10(k) == IF k = 0 THEN 1 ELSE 10 * Pow10(k - 1)

\* the number of decimal digits of n > 0
RECURSIVE Digits(_)
Digits(n) == IF n < 10 THEN 1 ELSE 1 + Digits(n \div 10)

\* the number of trailing decimal zeros of n > 0
RECURSIVE TrailingZeros(_)
TrailingZeros(n) == IF n % 10 # 0 THEN 0 ELSE 1 + TrailingZeros(n \div 10)

\* n in decimal, zero-padded to w digits
RECURSIVE PadLeft(_, _)
PadLeft(n, w) == IF w = 0 THEN "" ELSE PadLeft(n \div 10, w - 1) \o ToString(n % 10)

\* a fraction of w digits without its trailing zeros, one digit at least
RECURSIVE StripZeros(_, _)
StripZeros(n, w) ==
    IF w > 1 /\ n % 10 = 0 THEN StripZeros(n \div 10, w - 1) ELSE PadLeft(n, w)

\* ndarray.round(decimals) of one cell: to the nearest multiple of
\* 10^-decimals; a value halfway between two goes to the even one when the
\* scaled float is the exact half, and where floating point puts it
\* otherwise (tie_up: the scaled value came out above the half).
round_cell(cell, decimals, tie_up) ==
    IF cell = NaN
    THEN NaN
    ELSE LET step == Pow10(8 - decimals)
             q    == cell[1] \div step
             r    == cell[1] % step
             up   == 2 * r > step \/ (2 * r = step /\ (tie_up \/ q % 2 = 1))
         IN << (IF up THEN q + 1 ELSE q) * step >>

\* str(num) of a float64: "nan", or the shortest decimal that reads back as
\* the same value, in exponent form below 1e-4.
float_str(cell) ==
    IF cell = NaN
    THEN "nan"
    ELSE LET n == cell[1]
         IN IF n = 0
            THEN "0.0"
            ELSE IF n >= Pow10(4)
            THEN ToString(n \div Pow10(8)) \o "." \o StripZeros(n % Pow10(8), 8)
            ELSE LET tz == TrailingZeros(n)
                     m  == n \div Pow10(tz)
                     d  == Digits(m)
                     ex == 8 - (d - 1 + tz)
                     mant == IF d = 1
                             THEN ToString(m)
                             ELSE ToString(m \div Pow10(d - 1)) \o "."
                                      \o PadLeft(m % Pow10(d - 1), d - 1)
                 IN mant \o "e-" \o PadLeft(ex, 2)

\* float(x): the value whose str is x ("nan" reads as NaN), ValueError for
\* anything else.  floats is the set of values looked through.
parse_float(x, strs) ==
    IF \E v \in DOMAIN strs : strs[v] = x
    THEN [raised |-> "none", value |-> CHOOSE v \in DOMAIN strs : strs[v] = x]
    ELSE [raised |-> "ValueError", value |-> NaN]

\* line.startswith("#"), line.startswith(" #"), line.startswith("1\t"),
\* decided by the first field (and by there being a second one)
HashFields == {"#unpaired probabilities", "#"}
SpaceHashFields == {" #$i", " #"}
StartsWithHash(line) == line[1] \in HashFields
StartsWithSpaceHash(line) == line[1] \in SpaceHashFields
StartsWithOneTab(line) == line[1] = "1" /\ Len(line) >= 2

\* the text "", and "\n".join(lines)
EmptyText == << <<"">> >>
JoinLines(lines) == IF lines = <<>> THEN EmptyText ELSE lines

\* seq[a:b] for 0 <= a, 0 <= b
Slice(seq, a, b) ==
    LET n  == Len(seq)
        lo == IF a < 0 THEN (IF a + n < 0 THEN 0 ELSE a + n) ELSE Min(a, n)
        hi == IF b < 0 THEN (IF b + n < 0 THEN 0 ELSE b + n) ELSE Min(b, n)
    IN IF lo >= hi THEN <<>> ELSE SubSeq(seq, lo + 1, hi)

\* text.replace(old, new), for old and new that fill a field
replace(text, old, new) ==
    [i \in DOMAIN text |->
        [j \in DOMAIN text[i] |-> IF text[i][j] = old THEN new ELSE text[i][j]]]

\* " #$i\tl=" + "\t".join(str(x + 1) for x in range(length))
HeaderLine(length) ==
    <<" #$i">> \o [x \in 1 .. (IF length = 0 THEN 1 ELSE length) |->
                     IF x = 1
                     THEN "l=" \o (IF length = 0 THEN "" ELSE "1")
                     ELSE ToString(x)]

\* PLFoldOutput.__sanitize(text)
sanitize(text) ==
    LET list_text == text
    IN IF StartsWithOneTab(list_text[1])
       THEN [raised |-> "none",
             text |-> replace(<< <<"#unpaired probabilities">>,
                                 HeaderLine(Len(list_text[1]) - 1) >> \o list_text,
                              "nan", "NA")]
       ELSE IF StartsWithHash(list_text[1])
       THEN IF Len(list_text) < 2
            THEN [raised |-> "IndexError", text |-> text]
            ELSE IF StartsWithSpaceHash(list_text[2])
            THEN [raised |-> "none", text |-> replace(text, "nan", "NA")]
            ELSE [raised |-> "ValueError", text |-> text]
       ELSE [raised |-> "ValueError", text |-> text]

\* arrays
Array(shape, flat) == [shape |-> shape, flat |-> flat]
NDim(a) == Len(a.shape)
Row(a, x) == SubSeq(a.flat, (x - 1) * a.shape[2] + 1, x * a.shape[2])

\* np.expand_dims(array, axis=1) of a 2-d array
expand_dims(a) ==
    IF NDim(a) = 2
    THEN Array(<<a.shape[1], 1, a.shape[2]>>, a.flat)
    ELSE Array(<<a.shape[1], 1>>, a.flat)

\* np.squeeze(array): every axis of length 1 is dropped
RECURSIVE DropOnes(_)
DropOnes(shape) ==
    IF shape = <<>> THEN <<>>
    ELSE IF Head(shape) = 1 THEN DropOnes(Tail(shape))
    ELSE <<Head(shape)>> \o DropOnes(Tail(shape))

squeeze(a) == Array(DropOnes(a.shape), a.flat)

\* array[start:end] along the first axis
slice_rows(a, start, end) ==
    IF NDim(a) = 2
    THEN LET rows == Slice([x \in 1 .. a.shape[1] |-> x], start, end)
         IN Array(<<Len(rows), a.shape[2]>>,
                  SubSeq(a.flat, start * a.shape[2] + 1,
                         Min(end, a.shape[1]) * a.shape[2]))
    ELSE LET flat == Slice(a.flat, start, end)
         IN Array(<<Len(flat)>>, flat)

\* A variant of __array_to_string that rounds to 6 digits.
array_to_string_round6(array, tie_up) ==
    IF NDim(array) = 0
    THEN [raised |-> "TypeError", text |-> EmptyText]
    ELSE IF array.shape[1] = 0
    THEN [raised |-> "none", text |-> EmptyText]
    ELSE IF NDim(array) = 1
    THEN [raised |-> "TypeError", text |-> EmptyText]
    ELSE [raised |-> "none",
          text |-> [x \in 1 .. array.shape[1] |->
                      <<ToString(x)>> \o
                      [c \in 1 .. array.shape[2] |->
                          float_str(round_cell(Row(array, x)[c],
                                               RoundDigits - 1, tie_up))]]]

\* PLFoldOutput.__array_to_string(array): len() of a 0-d array and the
\* iteration of a row that is a number are TypeErrors.
array_to_string(array, tie_up) ==
    IF NDim(array) = 0
    THEN [raised |-> "TypeError", text |-> EmptyText]
    ELSE IF array.shape[1] = 0
    THEN [raised |-> "none", text |-> EmptyText]
    ELSE IF NDim(array) = 1
    THEN [raised |-> "TypeError", text |-> EmptyText]
    ELSE [raised |-> "none",
          text |-> [x \in 1 .. array.shape[1] |->
                      <<ToString(x)>> \o
                      [c \in 1 .. array.shape[2] |->
                          float_str(round_cell(Row(array, x)[c],
                                               RoundDigits, tie_up))]]]

\* The cells of the arrays a profile is built from: NaN, a value halfway
\* between two multiples of 1e-7 (5e-8) and one with eight digits
\* (0.12345678).
Cells == {NaN, <<5>>, <<12345678>>}

\* The floats a text is read back into: the cells, what round() makes of
\* them, and 0.5.
Floats ==
    Cells \cup {round_cell(c, d, t) :
                    c \in Cells, d \in {RoundDigits - 1, RoundDigits},
                    t \in BOOLEAN}
          \cup {<<50000000>>}

\* the lines of a text the numpy_array property reads
DataLine(line) ==
    ~StartsWithHash(line) /\ ~StartsWithSpaceHash(line) /\ line # <<"">>

\* [float(x) if x != "NA" else np.nan for x in line.split("\t")[1:]]
FloatStrs == [v \in Floats |-> float_str(v)]

parse_cell(x) ==
    IF x = "NA" THEN [raised |-> "none", value |-> NaN] ELSE parse_float(x, FloatStrs)

RECURSIVE Flatten(_)
Flatten(rows) == IF rows = <<>> THEN <<>> ELSE Head(rows) \o Flatten(Tail(rows))

\* the parse of the numpy_array property: np.array(rows, dtype=float) is a
\* ValueError for rows of different lengths
parse_text(text) ==
    LET lines == SelectSeq(text, DataLine)
        data  == [i \in DOMAIN lines |-> Tail(lines[i])]
    IN IF \E i \in DOMAIN data : \E j \in DOMAIN data[i] :
              parse_cell(data[i][j]).raised # "none"
       THEN [raised |-> "ValueError", array |-> Array(<<0>>, <<>>)]
       ELSE IF data = <<>>
       THEN [raised |-> "none", array |-> Array(<<0>>, <<>>)]
       ELSE IF \E i \in DOMAIN data : Len(data[i]) # Len(data[1])
       THEN [raised |-> "ValueError", array |-> Array(<<0>>, <<>>)]
       ELSE [raised |-> "none",
             array |-> Array(<<Len(data), Len(data[1])>>,
                             Flatten([i \in DOMAIN data |->
                                 [j \in DOMAIN data[i] |->
                                     parse_cell(data[i][j]).value]]))]

\* A PLFoldOutput object: its text and its _numpy_array (<<>> for None).
PLFoldOutputObj(text, array) == [text |-> text, numpy_array |-> array]

\* PLFoldOutput(text)
PLFoldOutput(text) ==
    LET t == sanitize(text)
    IN [raised |-> t.raised, obj |-> PLFoldOutputObj(t.text, NoneVal)]

\* PLFoldOutput.from_numpy(array)
from_numpy(array, tie_up) ==
    LET str == array_to_string(array, tie_up)
        out == PLFoldOutput(str.text)
    IN IF str.raised # "none"
       THEN [raised |-> str.raised, obj |-> out.obj]
       ELSE IF out.raised # "none"
       THEN out
       ELSE [raised |-> "none", obj |-> PLFoldOutputObj(out.obj.text, Some(array))]

\* the numpy_array property: parsed from the text once, then kept
numpy_array(obj) ==
    IF obj.numpy_array # NoneVal
    THEN [raised |-> "none", obj |-> obj, array |-> obj.numpy_array[1]]
    ELSE LET parsed == parse_text(obj.text)
         IN IF parsed.raised # "none"
            THEN [raised |-> parsed.raised, obj |-> obj, array |-> parsed.array]
            ELSE [raised |-> "none",
                  obj |-> PLFoldOutputObj(obj.text, Some(parsed.array)),
                  array |-> parsed.array]

\* one cell of np.allclose(a, b, equal_nan=True, atol=0.0000001, rtol=0)
Close(x, y) ==
    IF x = NaN \/ y = NaN
    THEN x = y
    ELSE (IF x[1] >= y[1] THEN x[1] - y[1] ELSE y[1] - x[1]) <= Atol

\* np.allclose of two arrays; arrays of different shapes count as not close
allclose(a, b) ==
    /\ a.shape = b.shape
    /\ \A i \in DOMAIN a.flat : Close(a.flat[i], b.flat[i])

\* PLFoldOutput.__eq__(self, other): both arrays are read (and kept)
eq(self, other) ==
    LET a == numpy_array(self)
        b == numpy_array(other)
    IN IF a.raised # "none"
       THEN [raised |-> a.raised, value |-> FALSE, self |-> a.obj, other |-> other]
       ELSE IF b.raised # "none"
       THEN [raised |-> b.raised, value |-> FALSE, self |-> a.obj, other |-> b.obj]
       ELSE [raised |-> "none", value |-> allclose(a.array, b.array),
             self |-> a.obj, other |-> b.obj]

\* A variant of localize that cuts the text one line too early.
localize_off_by_one(obj, start, end) ==
    LET array == IF obj.numpy_array # NoneVal
                 THEN Some(slice_rows(obj.numpy_array[1], start, end))
                 ELSE NoneVal
        cut   == Slice(obj.text, start + 1, end + 1)
        text_list == [x \in DOMAIN cut |-> <<ToString(x)>> \o Tail(cut[x])]
        t     == sanitize(JoinLines(text_list))
    IN [raised |-> t.raised,
        obj |-> PLFoldOutputObj(IF t.raised = "none" THEN t.text ELSE obj.text,
                                array)]

\* PLFoldOutput.localize(start, end): the array is cut first, the text is
\* replaced only when __sanitize accepts the cut
localize(obj, start, end) ==
    LET array == IF obj.numpy_array # NoneVal
                 THEN Some(slice_rows(obj.numpy_array[1], start, end))
                 ELSE NoneVal
        cut   == Slice(obj.text, start + 2, end + 2)
        text_list == [x \in DOMAIN cut |-> <<ToString(x)>> \o Tail(cut[x])]
        t     == sanitize(JoinLines(text_list))
    IN [raised |-> t.raised,
        obj |-> PLFoldOutputObj(IF t.raised = "none" THEN t.text ELSE obj.text,
                                array)]

\* PLFoldOutput.get_text(nan, truncated)
get_text(obj, nan, truncated) ==
    LET out_string == IF truncated
                      THEN JoinLines(Slice(obj.text, 2, Len(obj.text)))
                      ELSE obj.text
    IN replace(out_string, "NA", nan)

\* PLFoldOutput.get_rnamediator_np_array()
get_rnamediator_np_array(obj) ==
    LET a == numpy_array(obj)
    IN IF a.raised # "none"
       THEN [raised |-> a.raised, obj |-> a.obj, array |-> a.array]
       ELSE [raised |-> "none", obj |-> a.obj, array |-> expand_dims(a.array)]

\* PLFoldOutput.from_rnamediator_numpy_output(file_path), ris_array being
\* the array np.load reads from the file
from_rnamediator_numpy_output(ris_array, tie_up) ==
    LET array == squeeze(ris_array)
        str   == array_to_string(array, tie_up)
        out   == PLFoldOutput(str.text)
    IN IF str.raised # "none"
       THEN [raised |-> str.raised, obj |-> out.obj]
       ELSE IF out.raised # "none"
       THEN out
       ELSE [raised |-> "none", obj |-> PLFoldOutputObj(out.obj.text, Some(array))]

---------------------------------------------------------------------------
(* The operations on a profile.                                            *)

\* the arrays a profile is built from: up to MaxRows x MaxCols cells, each
\* row filled with one value
Arrays ==
    UNION {{Array(<<n, r>>, [k \in 1 .. n * r |-> rows[(k - 1) \div r + 1]]) :
               rows \in [1 .. n -> Cells]} :
              n \in 0 .. MaxRows, r \in 0 .. MaxCols}

\* the lines a text is made of: a first row, a second row with a missing
\* value, a row number without a tab, the two header lines and an empty line
TextLines ==
    { <<"1", float_str(<<50000000>>)>>, <<"2", "NA">>, <<"1">>,
      <<"#unpaired probabilities">>, <<" #$i", "l=1">>, <<"">> }

Texts == UNION {[1 .. k -> TextLines] : k \in 1 .. MaxLines}

\* PLFoldOutput.from_numpy(array)
call_from_numpy ==
    /\ profile = <<>> /\ op.name = "none"
    /\ \E array \in Arrays, tie_up \in BOOLEAN :
       \E r \in {from_numpy(array, tie_up)} :
           /\ profile' = IF r.raised = "none" THEN <<r.obj>> ELSE <<>>
           /\ built' = [by |-> "from_numpy", array |-> array,
                        tie_up |-> tie_up, changed |-> FALSE]
           /\ op' = [name |-> "init", raised |-> r.raised]
    /\ UNCHANGED other_than_p

\* PLFoldOutput(text)
call_PLFoldOutput ==
    /\ profile = <<>> /\ op.name = "none"
    /\ \E text \in Texts :
       \E r \in {PLFoldOutput(text)} :
           /\ profile' = IF r.raised = "none" THEN <<r.obj>> ELSE <<>>
           /\ built' = [by |-> "text", text |-> text, changed |-> FALSE]
           /\ op' = [name |-> "init", raised |-> r.raised]
    /\ UNCHANGED other_than_p

\* PLFoldOutput(P.get_text(truncated=...)) == P
call_text_roundtrip ==
    /\ profile # <<>>
    /\ \E truncated \in BOOLEAN :
       \E text \in {get_text(profile[1], "NA", truncated)} :
       \E q \in {PLFoldOutput(text)} :
       \E e \in {eq(q.obj, profile[1])} :
           IF q.raised # "none"
           THEN /\ op' = [name |-> "roundtrip", truncated |-> truncated,
                          text |-> text, raised |-> q.raised, equal |-> FALSE]
                /\ UNCHANGED profile
           ELSE /\ op' = [name |-> "roundtrip", truncated |-> truncated,
                          text |-> text, raised |-> e.raised, equal |-> e.value,
                          parsed |-> e.self]
                /\ profile' = <<e.other>>
    /\ UNCHANGED <<built, other_than_p>>

\* P.localize(start, end)
call_localize ==
    /\ profile # <<>>
    /\ \E start \in 0 .. MaxRows, end \in 0 .. (MaxRows + 1) :
       \E r \in {localize(profile[1], start, end)} :
           /\ profile' = <<r.obj>>
           /\ op' = [name |-> "localize", start |-> start, end |-> end,
                     before |-> profile[1], raised |-> r.raised]
    /\ built' = [built EXCEPT !.changed = TRUE]
    /\ UNCHANGED other_than_p

\* np.save(file, P.get_rnamediator_np_array()), then
\* PLFoldOutput.from_rnamediator_numpy_output(file) == P
call_binary_roundtrip ==
    /\ profile # <<>>
    /\ \E tie_up \in BOOLEAN :
       \E g \in {get_rnamediator_np_array(profile[1])} :
       \E l \in {from_rnamediator_numpy_output(g.array, tie_up)} :
       \E e \in {eq(l.obj, g.obj)} :
           IF g.raised # "none"
           THEN /\ op' = [name |-> "binary", saved |-> FALSE,
                          raised |-> g.raised, equal |-> FALSE]
                /\ profile' = <<g.obj>>
           ELSE IF l.raised # "none"
           THEN /\ op' = [name |-> "binary", saved |-> TRUE,
                          array |-> g.array, raised |-> l.raised,
                          equal |-> FALSE]
                /\ profile' = <<g.obj>>
           ELSE /\ op' = [name |-> "binary", saved |-> TRUE,
                          array |-> g.array, raised |-> e.raised,
                          equal |-> e.value, loaded |-> e.self]
                /\ profile' = <<e.other>>
    /\ UNCHANGED <<built, other_than_p>>

\* the profile goes out of scope
Drop ==
    /\ op.name # "none"
    /\ profile' = <<>>
    /\ built' = [by |-> "none"]
    /\ op' = [name |-> "none"]
    /\ UNCHANGED other_than_p

NextProfile ==
    \/ call_from_numpy
    \/ call_PLFoldOutput
    \/ call_text_roundtrip
    \/ call_localize
    \/ call_binary_roundtrip
    \/ Drop

SpecProfile == Init /\ [][NextProfile]_vars


---------------------------------------------------------------------------
(* Profiles: text and binary round trips, localize, construction.          *)

\* the profile is the one from_numpy built, no operation has cut it
BuiltFromArray == built.by = "from_numpy" /\ ~built.changed /\ profile # <<>>

\* the data lines of a text
DataRows(text) == SelectSeq(text, DataLine)

\* C7: a profile built from an array with at least one row equals, under
\* __eq__, the profile read back from its get_text(), truncated or not; a
\* NaN cell is the field "NA" of the text and is read back as NaN.
C7_TextRoundTrip ==
    (BuiltFromArray /\ op.name = "roundtrip" /\ built.array.shape[1] >= 1) =>
        /\ op.raised = "none"
        /\ op.equal
        /\ Len(DataRows(op.text)) = built.array.shape[1]
        /\ \A x \in 1 .. built.array.shape[1], c \in 1 .. built.array.shape[2] :
               /\ (Row(built.array, x)[c] = NaN) <=> (DataRows(op.text)[x][c + 1] = "NA")
               /\ (Row(built.array, x)[c] = NaN) <=>
                      (Row(op.parsed.numpy_array[1], x)[c] = NaN)

\* C7 witness: both kinds of text were read back equal for an array holding
\* a NaN cell and a cell halfway between two multiples of 1e-7.
C7_Witness ==
    /\ BuiltFromArray
    /\ op.name = "roundtrip"
    /\ op.truncated
    /\ op.equal
    /\ \E k \in DOMAIN built.array.flat : built.array.flat[k] = NaN
    /\ \E k \in DOMAIN built.array.flat : built.array.flat[k] = <<5>>
    /\ \E x \in DOMAIN op.text : \E c \in DOMAIN op.text[x] : op.text[x][c] = "NA"

\* C8: for a profile of N >= 1 rows and R >= 1 columns the array of
\* get_rnamediator_np_array() has shape (N, 1, R), and
\* from_rnamediator_numpy_output reads it back as a profile of N rows and R
\* columns equal to the original.
C8_BinaryRoundTrip ==
    (BuiltFromArray /\ op.name = "binary"
        /\ built.array.shape[1] >= 1 /\ built.array.shape[2] >= 1) =>
        /\ op.saved
        /\ op.array.shape = <<built.array.shape[1], 1, built.array.shape[2]>>
        /\ op.raised = "none"
        /\ op.equal
        /\ op.loaded.numpy_array[1].shape = built.array.shape

\* the number of rows of a profile
NRows(obj) == Len(DataRows(obj.text))

\* a profile of n >= 1 rows: the two header lines, n lines of a row number
\* and one column at least, a last empty line or none, and an array, once
\* there is one, of the rows of the text
NRowProfile(obj, n) ==
    /\ n >= 1
    /\ Len(obj.text) \in {n + 2, n + 3}
    /\ Len(obj.text) = n + 3 => obj.text[n + 3] = <<"">>
    /\ StartsWithHash(obj.text[1])
    /\ StartsWithSpaceHash(obj.text[2])
    /\ \A i \in 3 .. (n + 2) : DataLine(obj.text[i]) /\ Len(obj.text[i]) >= 2
    /\ parse_text(obj.text).raised = "none"
    /\ obj.numpy_array # NoneVal =>
           allclose(parse_text(obj.text).array, obj.numpy_array[1])

\* C9: localize(start, end) with 0 <= start < end <= N on an N-row profile
\* leaves the rows start..end-1 of the original, renumbered from 1, in the
\* text and in the array alike; localize(0, N) leaves a profile equal to
\* the original.
C9_LocalizeRows ==
    (op.name = "localize" /\ NRowProfile(op.before, NRows(op.before))
        /\ 0 <= op.start /\ op.start < op.end /\ op.end <= NRows(op.before)) =>
        LET n == NRows(op.before)
            k == op.end - op.start
            p == profile[1]
        IN /\ op.raised = "none"
           /\ Len(p.text) = k + 2
           /\ StartsWithHash(p.text[1])
           /\ StartsWithSpaceHash(p.text[2])
           /\ \A x \in 1 .. k :
                  p.text[x + 2] = <<ToString(x)>> \o Tail(op.before.text[op.start + 2 + x])
           /\ NRowProfile(p, k)
           /\ op.before.numpy_array # NoneVal =>
                  /\ p.numpy_array # NoneVal
                  /\ p.numpy_array[1].shape = <<k, op.before.numpy_array[1].shape[2]>>
                  /\ \A x \in 1 .. k :
                         Row(p.numpy_array[1], x) =
                             Row(op.before.numpy_array[1], op.start + x)
           /\ (op.start = 0 /\ op.end = n) =>
                  eq(p, op.before).raised = "none" /\ eq(p, op.before).value

\* C9 witness: the second row of a profile with its array was cut out and
\* became row 1.
C9_Witness ==
    /\ op.name = "localize"
    /\ NRowProfile(op.before, NRows(op.before))
    /\ NRows(op.before) >= 2
    /\ op.start = 1
    /\ op.end = 2
    /\ op.before.numpy_array # NoneVal
    /\ op.before.text[4][2] # op.before.text[3][2]
    /\ op.raised = "none"
    /\ profile[1].text[3][1] = "1"

\* the two forms of text __sanitize accepts
AcceptedText(text) ==
    \/ StartsWithOneTab(text[1])
    \/ Len(text) >= 2 /\ StartsWithHash(text[1]) /\ StartsWithSpaceHash(text[2])

\* C10: PLFoldOutput(text) succeeds when the first line starts with "1\t"
\* (the two header lines are put in front) and when the first two lines are
\* the header lines (the text is kept); for every other text it raises
\* ValueError.
C10_ConstructFromText ==
    (built.by = "text" /\ op.name = "init") =>
        IF AcceptedText(built.text)
        THEN /\ op.raised = "none"
             /\ profile # <<>>
             /\ IF StartsWithOneTab(built.text[1])
                THEN SubSeq(profile[1].text, 3, Len(profile[1].text)) = built.text
                ELSE profile[1].text = built.text
        ELSE op.raised = "ValueError" /\ profile = <<>>


---------------------------------------------------------------------------
(* FoldOutput.  The object is the dict of its conditions (the "anno" key   *)
(* is left out: no condition can be named "anno"); a condition's value is  *)
(* the record of its seven keys, each <<>> for None or <<v>>.  gibbs is in *)
(* units of 0.01 kcal/mol, a base pair probability in halves (1 is 0.5),   *)
(* nrg and ln in units of 1e-4.                                            *)

MaxFcLen == 1

\* k_t = 0.61632077549999997 in _calc_nrg, in units of 1e-4
Kt == 6163

\* 1e4 * math.log(b / 2) for the sums of probabilities a fold compound of
\* the model can give
Ln(b) ==
    CASE b = 1 -> -6931
      [] b = 2 -> 0

\* the dict FoldOutput.__init__ makes for its condition
NewCondition(gibbs) ==
    [gibbs |-> gibbs, constraint |-> NoneVal, bppm |-> Some(<<>>),
     bpp |-> NoneVal, nrg |-> NoneVal, ddg |-> NoneVal, dnrg |-> NoneVal]

\* FoldOutput(condition, gibbs=gibbs)
FoldOutput(condition, gibbs) ==
    IF condition \notin FoldConditions
    THEN [raised |-> "AssertionError", obj |-> <<>>]
    ELSE [raised |-> "none", obj |-> [c \in {condition} |-> NewCondition(gibbs)]]

\* _calc_gibbs(fc): fc.pf()[1], None when pf() raises
calc_gibbs(compound) == compound.pf

RECURSIVE SumSeq(_)
SumSeq(seq) == IF seq = <<>> THEN 0 ELSE Head(seq) + SumSeq(Tail(seq))

\* _get_bppm(matrix, start, end): the probabilities > 0 of the columns
\* start..end of every row (the row and column written with them are left
\* out), None for bounds outside the matrix and for any exception (start or
\* end None, a column past the row)
get_bppm(matrix, start, end) ==
    IF start = NoneVal \/ end = NoneVal
    THEN NoneVal
    ELSE IF start[1] < 0 \/ end[1] > Len(matrix)
    THEN NoneVal
    ELSE IF end[1] + 1 > Len(matrix[1]) /\ start[1] <= end[1]
    THEN NoneVal
    ELSE Some(Flatten([r \in DOMAIN matrix |->
                 SelectSeq(SubSeq(matrix[r], start[1] + 1, end[1] + 1),
                           LAMBDA x : x > 0)]))

\* _calc_bpp(bppm): the sum of the probabilities; iterating np.array(None)
\* raises inside the try and leaves 0.0
calc_bpp(bppm) == IF bppm = NoneVal THEN 0 ELSE SumSeq(bppm[1])

\* _calc_nrg(bpp)
calc_nrg(bpp) == IF bpp > 0 THEN (0 - (Kt * Ln(bpp))) \div 10000 ELSE 0

\* dict.update of one key of one condition
update(self, condition, key, value) ==
    [self EXCEPT ![condition] = [@ EXCEPT ![key] = value]]

\* A variant of the last step that takes the differences to
\* "unconstrained" whether or not it is there.
set_deltas_nodefault(self, condition, gibbs, nrg) ==
    IF "unconstrained" \notin DOMAIN self
    THEN [raised |-> "KeyError", obj |-> self]
    ELSE IF self["unconstrained"].gibbs = NoneVal \/ gibbs = NoneVal
    THEN [raised |-> "TypeError", obj |-> self]
    ELSE IF self["unconstrained"].nrg = NoneVal
    THEN [raised |-> "TypeError",
          obj |-> update(self, condition, "ddg",
                         Some(self["unconstrained"].gibbs[1] - gibbs[1]))]
    ELSE [raised |-> "none",
          obj |-> update(update(self, condition, "ddg",
                                Some(self["unconstrained"].gibbs[1] - gibbs[1])),
                         condition, "dnrg",
                         Some(self["unconstrained"].nrg[1] - nrg))]

\* the last step of from_rnamediator_fold_compound: ddg and dnrg are the
\* differences to "unconstrained" when that entry is there and another
\* condition is stored (None - float is a TypeError), and 0 otherwise
set_deltas(self, condition, gibbs, nrg) ==
    IF "unconstrained" \in DOMAIN self /\ condition # "unconstrained"
    THEN IF self["unconstrained"].gibbs = NoneVal \/ gibbs = NoneVal
         THEN [raised |-> "TypeError", obj |-> self]
         ELSE IF self["unconstrained"].nrg = NoneVal
         THEN [raised |-> "TypeError",
               obj |-> update(self, condition, "ddg",
                              Some(self["unconstrained"].gibbs[1] - gibbs[1]))]
         ELSE [raised |-> "none",
               obj |-> update(update(self, condition, "ddg",
                                     Some(self["unconstrained"].gibbs[1] - gibbs[1])),
                              condition, "dnrg",
                              Some(self["unconstrained"].nrg[1] - nrg))]
    ELSE [raised |-> "none",
          obj |-> update(update(self, condition, "ddg", Some(0)),
                         condition, "dnrg", Some(0))]

\* FoldOutput.from_rnamediator_fold_compound(fc, condition, constr, start, end)
from_rnamediator_fold_compound(self, compound, condition, constr, start, end) ==
    IF condition \notin FoldConditions
    THEN [raised |-> "AssertionError", obj |-> self]
    ELSE
    LET s0    == IF condition \in DOMAIN self
                 THEN self
                 ELSE [c \in DOMAIN self \cup {condition} |->
                         IF c = condition THEN NewCondition(NoneVal) ELSE self[c]]
        gibbs == calc_gibbs(compound)
        s1    == update(update(s0, condition, "constraint", constr),
                        condition, "gibbs", gibbs)
        reset == ~Truthy(start) /\ Truthy(end)
        st    == IF reset THEN Some(0) ELSE start
        en    == IF reset THEN Some(compound.length) ELSE end
        bppm  == get_bppm(compound.bpp, st, en)
        bpp   == calc_bpp(bppm)
        nrg   == calc_nrg(bpp)
        s2    == update(update(update(s1, condition, "bppm", bppm),
                               condition, "bpp", Some(bpp)),
                        condition, "nrg", Some(nrg))
    IN set_deltas(s2, condition, gibbs, nrg)

---------------------------------------------------------------------------
(* The operations on a FoldOutput.                                         *)

\* the conditions the calls name: two of FoldConditions, "unconstrained"
\* among them, and one that is none of them
CallConditions == {"unconstrained", "constraint_paired", "none"}

\* free energies fc.pf() returns
Gibbs == {-2, 3}

\* the base pair probability matrices fc.bpp() returns for a sequence of
\* length n: n + 1 rows and columns, zero but for one corner
BppMatrices(n) ==
    {[r \in 1 .. n + 1 |-> [c \in 1 .. n + 1 |->
          IF r = 1 /\ c = n + 1 THEN p ELSE 0]] : p \in {0, 1}}

\* the start and end of the calls for a sequence of length n: none, the
\* whole sequence (as api_rnafold passes), and three with a start that is
\* not 0
Bounds(n) ==
    {<<NoneVal, NoneVal>>, <<Some(0), Some(n)>>, <<Some(1), Some(n)>>,
     <<Some(1), Some(n + 1)>>, <<Some(1), Some(n + 2)>>}

\* the fold compounds: a length, what pf() returns (None: pf() raises) and
\* what bpp() returns
FoldCompounds ==
    UNION {[length : {n}, pf : {NoneVal} \cup {Some(g) : g \in Gibbs},
            bpp : BppMatrices(n)] : n \in 1 .. MaxFcLen}

\* FoldOutput(condition, gibbs=gibbs)
call_FoldOutput ==
    /\ foldout = <<>> /\ fo_op.name = "none"
    /\ \E condition \in CallConditions, gibbs \in {NoneVal} \cup {Some(g) : g \in Gibbs} :
       \E r \in {FoldOutput(condition, gibbs)} :
           /\ foldout' = IF r.raised = "none" THEN <<r.obj>> ELSE <<>>
           /\ fo_op' = [name |-> "init", condition |-> condition, raised |-> r.raised]
    /\ UNCHANGED other_than_o

\* FoldOut.from_rnamediator_fold_compound(fc, condition, constr, start, end)
call_from_rnamediator_fold_compound ==
    /\ foldout # <<>>
    /\ \E compound \in FoldCompounds, condition \in CallConditions :
       \E bounds \in Bounds(compound.length) :
       \E r \in {from_rnamediator_fold_compound(foldout[1], compound, condition,
                                                Some("."), bounds[1], bounds[2])} :
           /\ foldout' = <<r.obj>>
           /\ fo_op' = [name |-> "from_rnamediator_fold_compound",
                        condition |-> condition,
                        had |-> DOMAIN foldout[1], raised |-> r.raised]
    /\ UNCHANGED other_than_o

\* the object is released
DropFoldOutput ==
    /\ fo_op.name # "none"
    /\ foldout' = <<>>
    /\ fo_op' = [name |-> "none"]
    /\ UNCHANGED other_than_o

NextFoldOutput ==
    \/ call_FoldOutput
    \/ call_from_rnamediator_fold_compound
    \/ DropFoldOutput

SpecFoldOutput == Init /\ [][NextFoldOutput]_vars

\* C11: from_rnamediator_fold_compound storing a condition other than
\* "unconstrained" in a FoldOutput without an "unconstrained" entry raises
\* nothing and leaves ddg = 0 and dnrg = 0 for that condition.
C11_DeltaDefault ==
    (fo_op.name = "from_rnamediator_fold_compound"
        /\ fo_op.condition \in FoldConditions \ {"unconstrained"}
        /\ "unconstrained" \notin fo_op.had) =>
        /\ fo_op.raised = "none"
        /\ fo_op.condition \in DOMAIN foldout[1]
        /\ foldout[1][fo_op.condition].ddg = Some(0)
        /\ foldout[1][fo_op.condition].dnrg = Some(0)

\* C11 witness: a condition was stored with a free energy and a pseudo
\* energy that are not 0, in an object without "unconstrained".
C11_Witness ==
    /\ fo_op.name = "from_rnamediator_fold_compound"
    /\ fo_op.condition = "constraint_paired"
    /\ "unconstrained" \notin fo_op.had
    /\ fo_op.raised = "none"
    /\ foldout[1]["constraint_paired"].gibbs = Some(3)
    /\ foldout[1]["constraint_paired"].nrg # Some(0)
    /\ foldout[1]["constraint_paired"].ddg = Some(0)


---------------------------------------------------------------------------
(* The region selectors.  An array is the sequence of its cells, position  *)
(* pos of the code being element pos + 1; a value is in units of 0.1.      *)

MaxPos == 2
MaxUlim == 2

Abs(x) == IF x < 0 THEN 0 - x ELSE x

\* abs(np.nanmean(cells)) <= cutoff: the mean of the cells that are not
\* NaN; the mean of none is NaN and compares False
nanmean_le(cells, cutoff) ==
    LET vals == SelectSeq(cells, LAMBDA c : c # NaN)
    IN /\ vals # <<>>
       /\ Abs(SumSeq([i \in DOMAIN vals |-> vals[i][1]])) <= cutoff * Len(vals)

\* noc + oc, cell by cell
add_arrays(a, b) ==
    [i \in DOMAIN a |-> IF a[i] = NaN \/ b[i] = NaN THEN NaN ELSE <<a[i][1] + b[i][1]>>]

\* bool(array): the value of its only element, an error for more than one
ArrayTruth(a) ==
    IF Len(a) > 1 THEN "ValueError"
    ELSE IF Len(a) = 1 /\ a[1] # <<0>> THEN "true" ELSE "false"

\* the window in genomic coordinates, 0-based closed
window_coords(gstrand, gs, ge, ws, we) ==
    IF gstrand # "-"
    THEN [ws |-> ws + gs - 2, we |-> we + gs - 2]
    ELSE [ws |-> ge - we, we |-> ge - ws]

\* A variant of genomic_pos that does not move a position to the start of
\* the stretch of ulim nucleotides it ends.
genomic_pos_noshift(gstrand, pos, w, ulim) ==
    IF gstrand # "-" THEN pos + w.ws ELSE w.we - pos

\* A variant of genomic_pos that counts from the window start on both
\* strands.
genomic_pos_unmirrored(gstrand, pos, w, ulim) == pos + w.ws - ulim + 1

\* gpos of a position of the array
genomic_pos(gstrand, pos, w, ulim) ==
    IF gstrand # "-" THEN pos + w.ws - ulim + 1 ELSE w.we - pos

\* border < abs(x) and not np.isnan(x)
over_border(border, x) == x # NaN /\ border < Abs(x[1])

\* if 0 > any([cs, ce, ws, we]): any() gives a bool, True for a list with a
\* value other than 0, and 0 is compared with that bool
lower_than_0(cs, ce, ws, we) ==
    0 > (IF cs # 0 \/ ce # 0 \/ ws # 0 \/ we # 0 THEN 1 ELSE 0)

\* create_bw_entries, the file name given by its fields: kind ("raw",
\* "diffnu", "diffnp"), cons = cs-ce, reg = ws-we, and the files by the
\* arrays _pl_to_array reads from them.  The result is the lists of raw, uc
\* and pc entries, or an exception, which the function logs before it
\* returns None.
create_bw_entries(kind, gstrand, gs, ge, cons, reg, cutoff, border, ulim, padding, raw, diff) ==
    LET cs   == cons[1] - reg[1]
        ce   == cons[2] - reg[1]
        w    == window_coords(gstrand, gs, ge, reg[1], reg[2])
        b    == Abs(border)
        noc  == raw
        gate == kind # "raw" /\ nanmean_le(Slice(noc, cs, ce + 1), cutoff)
        oc   == IF gate THEN Some(add_arrays(noc, diff)) ELSE NoneVal
        entry(pos, x) ==
            [pos |-> pos, start |-> genomic_pos(gstrand, pos, w, ulim),
             end |-> genomic_pos(gstrand, pos, w, ulim) + 1, value |-> x[1]]
        entries(a, test) ==
            LET idx == SelectSeq([i \in 1 .. Len(a) |-> i],
                                 LAMBDA i : test /\ over_border(b, a[i]))
            IN [k \in DOMAIN idx |-> entry(idx[k] - 1, a[idx[k]])]
    IN IF lower_than_0(cs, ce, reg[1], reg[2])
       THEN [raised |-> "Exception", out |-> NoneVal]
       ELSE IF oc # NoneVal /\ ArrayTruth(oc[1]) = "ValueError"
       THEN [raised |-> "ValueError", out |-> NoneVal]
       ELSE [raised |-> "none",
             out |-> Some([orient |-> IF gstrand # "-" THEN "fw" ELSE "re",
                           raw |-> entries(noc, TRUE),
                           uc |-> IF oc # NoneVal
                                  THEN entries(oc[1], ArrayTruth(oc[1]) = "true"
                                                          /\ kind = "diffnu")
                                  ELSE <<>>,
                           pc |-> IF oc # NoneVal
                                  THEN entries(oc[1], ArrayTruth(oc[1]) = "true"
                                                          /\ kind = "diffnp")
                                  ELSE <<>>])]

\* int(x) of a probability x (held in tenths): the integer part, or none
\* for NaN, for which int raises ValueError
int_of(x) ==
    IF x = NaN THEN NoneVal
    ELSE IF x[1] < 0 THEN Some(0 - ((0 - x[1]) \div 10)) ELSE Some(x[1] \div 10)

\* a[i] of a numpy array: a negative index counts from the end
np_index(a, i) == IF i < 0 THEN i + Len(a) ELSE i
in_bounds(a, i) == 0 <= np_index(a, i) /\ np_index(a, i) < Len(a)

\* judge_diff: abs(noc[ce]) > cutoff
raw_over_cutoff(noc, ce, cutoff) ==
    noc[np_index(noc, ce) + 1] # NaN /\ Abs(noc[np_index(noc, ce) + 1][1]) > cutoff

\* judge_diff: border1 < x and x < border2
in_band(border, x) == x # NaN /\ border[1] < x[1] /\ x[1] < border[2]

\* A variant of distance that counts from the first position next to the
\* constraint.
distance_from_neighbour(pos, cs, ce) == IF ce < pos THEN (pos - ce - 1) * (-1) ELSE cs - pos - 1

\* judge_diff: dist, up or downstream of the constraint
distance(pos, cs, ce) == IF ce < pos THEN (pos - ce) * (-1) ELSE cs - pos

\* judge_diff: ws, we in genomic coordinates
jd_window_coords(strand, gs, ge, ws, we) ==
    IF strand # "-"
    THEN [ws |-> ws + gs - 1, we |-> we + gs]
    ELSE [ws |-> ge - we - 1, we |-> ge - ws]

\* judge_diff, the file name given by its fields (strand, cons = cs-ce,
\* reg = ws-we) and the three files by the arrays pl_to_array reads from
\* them.  The result is the lists of unpaired and paired records handed to
\* savelists, or the exception that ended the call before savelists.
judge_diff(strand, gs, ge, cons, reg, cutoff, border, ulim, noc, uc, pc) ==
    LET cs == cons[1] - reg[1] - 1
        ce == cons[2] - reg[1] - 1
        w  == jd_window_coords(strand, gs, ge, reg[1], reg[2])
        outside == SelectSeq([i \in 1 .. Len(uc) |-> i - 1],
                             LAMBDA pos : ~(cs <= pos /\ pos < ce + 1))
        record(pos, x) ==
            [pos |-> pos,
             start |-> IF strand # "-" THEN pos + w.ws ELSE w.we - pos - ulim - 1,
             end |-> (IF strand # "-" THEN pos + w.ws ELSE w.we - pos - ulim - 1) + ulim,
             gcons |-> IF strand # "-" THEN <<cs + w.ws, ce + w.ws>>
                       ELSE <<w.we - ce - 1, w.we - cs>>,
             value |-> x[1],
             dist |-> distance(pos, cs, ce),
             raw |-> int_of(noc[pos + 1])]
        records(a) ==
            LET hit == SelectSeq(outside, LAMBDA pos : in_band(border, a[pos + 1]))
            IN [k \in DOMAIN hit |-> record(hit[k], a[hit[k] + 1])]
        failed(recs) == \E k \in DOMAIN recs : recs[k].raw = NoneVal
    IN IF ~in_bounds(noc, ce)
       THEN [raised |-> "IndexError", out |-> NoneVal]
       ELSE IF ~raw_over_cutoff(noc, ce, cutoff)
       THEN [raised |-> "none", out |-> Some([u |-> <<>>, p |-> <<>>])]
       ELSE IF failed(records(uc)) \/ failed(records(pc))
       THEN [raised |-> "ValueError", out |-> NoneVal]
       ELSE [raised |-> "none", out |-> Some([u |-> records(uc), p |-> records(pc)])]

\* savelists: the files it appends the records to
savelists(out) ==
    (IF Len(out.u) > 0 THEN {"Collection_unpaired.bed.gz"} ELSE {}) \cup
    (IF Len(out.p) > 0 THEN {"Collection_paired.bed.gz"} ELSE {})

---------------------------------------------------------------------------
(* Calls of create_bw_entries.                                             *)

SelKinds == {"raw", "diffnu", "diffnp"}
Strands == {"+", "-"}

\* gene starts (1-based); the gene ends MaxPos + 1 after its start
GeneStarts == {1, 4}
GeneEnd(gs) == gs + MaxPos + 1

\* reg of the file name, for an array of n positions: 0-0 for a raw file,
\* the window (1-based) for a diff file
Regs(kind, n) == IF kind = "raw" THEN {<<0, 0>>} ELSE {<<ws, ws + n - 1>> : ws \in {1, 2}}

\* cons of the file name: a constraint inside the window; create_bw_entries
\* is also called for a constraint that starts one before the window
Conses(reg, n) ==
    {<<c, d>> : c \in reg[1] .. reg[1] + n - 1, d \in reg[1] .. reg[1] + n - 1} \cap
    {x \in Int \X Int : x[1] <= x[2]}

\* cutoff 0.5 and 1.0; the border is 0.3 and the padding 1
Cutoffs == {5, 10}

\* unpaired probabilities (0.1, 0.6) and differences (-0.4, 0.3), or NaN
RawCells == {NaN, <<1>>, <<6>>}
DiffCells == {NaN, <<-4>>, <<3>>}

call_create_bw_entries ==
    /\ sel.name = "none"
    /\ \E kind \in SelKinds, gstrand \in Strands, gs \in GeneStarts, n \in 1 .. MaxPos :
       \E reg \in Regs(kind, n), cutoff \in Cutoffs, border \in {3} :
       \E cons \in Conses(reg, n) \cup
                        (IF kind = "raw" THEN {}
                         ELSE {<<reg[1] - 1, reg[1] - 1>>, <<reg[1] - 1, reg[1]>>}),
          ulim \in 1 .. MaxUlim, padding \in {1} :
       \E raw \in [1 .. n -> RawCells] :
       \E diff \in IF kind = "raw" THEN {<<>>} ELSE {[i \in 1 .. n |-> c] : c \in DiffCells} :
       \E r \in {create_bw_entries(kind, gstrand, gs, GeneEnd(gs), cons, reg, cutoff,
                                   border, ulim, padding, raw, diff)} :
           sel' = [name |-> "create_bw_entries", kind |-> kind, gstrand |-> gstrand,
                   gs |-> gs, ge |-> GeneEnd(gs), cons |-> cons, reg |-> reg,
                   cutoff |-> cutoff, border |-> border, ulim |-> ulim,
                   padding |-> padding, raw |-> raw, diff |-> diff,
                   raised |-> r.raised, out |-> r.out, mirror |-> NoneVal]
    /\ UNCHANGED other_than_s

\* the same file of the same gene on the other strand
call_create_bw_entries_mirror ==
    /\ sel.name = "create_bw_entries"
    /\ sel.mirror = NoneVal
    /\ \E r \in {create_bw_entries(sel.kind, IF sel.gstrand = "-" THEN "+" ELSE "-",
                                   sel.gs, sel.ge, sel.cons, sel.reg, sel.cutoff,
                                   sel.border, sel.ulim, sel.padding, sel.raw,
                                   sel.diff)} :
           sel' = [sel EXCEPT !.mirror = Some(r)]
    /\ UNCHANGED other_than_s

\* judge_diff for a window of n positions that starts at 2, with border
\* "0.3,0.8", raw values 0.6 or NaN and differences -0.4, 0.5 or NaN
call_judge_diff ==
    /\ sel.name = "none"
    /\ \E strand \in Strands, gs \in GeneStarts, n \in 1 .. MaxPos + 1 :
       \E reg \in {<<2, n + 1>>}, cutoff \in Cutoffs, border \in {<<3, 8>>} :
       \E cons \in Conses(reg, n), ulim \in 1 .. MaxUlim :
       \E noc \in [1 .. n -> {NaN, <<6>>}], uc \in [1 .. n -> {NaN, <<-4>>, <<5>>}] :
       \E pc \in {[i \in 1 .. n |-> c] : c \in {NaN, <<5>>}} :
       \E r \in {judge_diff(strand, gs, GeneEnd(gs), cons, reg, cutoff, border, ulim,
                            noc, uc, pc)} :
           sel' = [name |-> "judge_diff", strand |-> strand, gs |-> gs,
                   ge |-> GeneEnd(gs), cons |-> cons, reg |-> reg, cutoff |-> cutoff,
                   border |-> border, ulim |-> ulim, noc |-> noc, uc |-> uc, pc |-> pc,
                   raised |-> r.raised, out |-> r.out,
                   saved |-> IF r.out = NoneVal THEN {} ELSE savelists(r.out[1])]
    /\ UNCHANGED other_than_s

\* the result is handed on
\* longest chromosome name body of the inputs
MaxChromLen == 33

\* read_chromsize(cs, limit=32)
Limit == 32

\* read_chromsize, one line of the file: a name is a sequence of characters.
\* l[0][:2] is compared with the three characters "chr" and "CHR"; in the
\* "CHR" branch l[3:] slices the list l = [name, size], and "chr" + list is
\* a TypeError
read_chromsize(name, limit) ==
    LET l0 == IF Slice(name, 0, 2) # <<"c", "h", "r">>
              THEN IF Slice(name, 0, 2) = <<"C", "H", "R">>
                   THEN NoneVal
                   ELSE Some(<<"c", "h", "r">> \o name)
              ELSE Some(name)
    IN IF l0 = NoneVal THEN [raised |-> "TypeError", out |-> NoneVal]
       ELSE [raised |-> "none",
             out |-> Some(IF Len(l0[1]) > limit THEN Slice(l0[1], 0, limit) ELSE l0[1])]

\* create_bw_entries: the chromosome name of the entries, from the file name
bw_chrom(chrom) ==
    IF Slice(chrom, 0, 2) # <<"c", "h", "r">>
    THEN IF Slice(chrom, 0, 2) = <<"C", "H", "R">>
         THEN <<"c", "h", "r">> \o Slice(chrom, 3, Len(chrom))
         ELSE <<"c", "h", "r">> \o chrom
    ELSE chrom

\* read_chromsize on a file of one line
call_read_chromsize ==
    /\ sel.name = "none"
    /\ \E pre \in {<<>>, <<"c", "h", "r">>, <<"C", "H", "R">>, <<"X">>}, k \in 0 .. MaxChromLen :
       \E name \in {pre \o [i \in 1 .. k |-> "1"]} :
       \E r \in {read_chromsize(name, Limit)} :
           sel' = [name |-> "read_chromsize", chrom |-> name,
                   raised |-> r.raised, out |-> r.out]
    /\ UNCHANGED other_than_s

\* create_bw_entries on a raw file of one position, with the chromosome name
\* of the file name
call_create_bw_entries_chrom ==
    /\ sel.name = "none"
    /\ \E pre \in {<<>>, <<"c", "h", "r">>, <<"C", "H", "R">>, <<"X">>}, k \in 0 .. MaxChromLen :
       \E name \in {pre \o [i \in 1 .. k |-> "1"]} :
       \E r \in {create_bw_entries("raw", "+", 1, GeneEnd(1), <<0, 0>>, <<0, 0>>, 5,
                                   3, 1, 1, << <<6>> >>, <<>>)} :
           sel' = [name |-> "create_bw_entries_chrom", chrom |-> name,
                   raised |-> r.raised,
                   out |-> IF r.out = NoneVal THEN NoneVal ELSE Some(bw_chrom(name))]
    /\ UNCHANGED other_than_s

ReturnSel ==
    /\ sel.name # "none"
    /\ sel' = [name |-> "none"]
    /\ UNCHANGED other_than_s

NextSelect ==
    \/ call_create_bw_entries
    \/ call_create_bw_entries_mirror
    \/ call_judge_diff
    \/ call_read_chromsize
    \/ call_create_bw_entries_chrom
    \/ ReturnSel

SpecSelect == Init /\ [][NextSelect]_vars

\* the entries of a result, of all three kinds
AllEntries(out) ==
    {out.raw[i] : i \in DOMAIN out.raw} \cup {out.uc[i] : i \in DOMAIN out.uc}
        \cup {out.pc[i] : i \in DOMAIN out.pc}

\* a call of create_bw_entries for a window of a gene returned its entries
BwReturned == sel.name = "create_bw_entries" /\ sel.raised = "none" /\ sel.kind # "raw"

BwMirrored == BwReturned /\ sel.mirror # NoneVal /\ sel.mirror[1].raised = "none"

BedReturned == sel.name = "judge_diff" /\ sel.out # NoneVal

\* the records of a result of judge_diff, unpaired and paired
AllRecords(out) == {out.u[i] : i \in DOMAIN out.u} \cup {out.p[i] : i \in DOMAIN out.p}

\* cs and ce of a call, in the window
LocalCs == IF sel.name = "judge_diff" THEN sel.cons[1] - sel.reg[1] - 1
           ELSE sel.cons[1] - sel.reg[1]
LocalCe == IF sel.name = "judge_diff" THEN sel.cons[2] - sel.reg[1] - 1
           ELSE sel.cons[2] - sel.reg[1]

\* C14: every record of judge_diff is for a position outside [cs, ce]; its
\* distance is -(pos - ce) after the constraint and cs - pos before it, so
\* it is negative downstream, positive upstream and never 0.
C14_DistanceSign ==
    BedReturned =>
        \A rec \in AllRecords(sel.out[1]) :
            /\ ~(LocalCs <= rec.pos /\ rec.pos <= LocalCe)
            /\ rec.pos > LocalCe => (rec.dist = 0 - (rec.pos - LocalCe) /\ rec.dist < 0)
            /\ rec.pos < LocalCs => (rec.dist = LocalCs - rec.pos /\ rec.dist > 0)
            /\ rec.dist # 0

\* C14 witness: one call gave a record right before the constraint and a
\* record right after it.
C14_Witness ==
    /\ BedReturned
    /\ LocalCs = 1
    /\ LocalCe = 1
    /\ \E r1, r2 \in AllRecords(sel.out[1]) :
           r1.pos = 0 /\ r1.dist = 1 /\ r2.pos = 2 /\ r2.dist = -1

\* the positions create_bw_entries reported for the condition of its file
BwReported ==
    IF sel.out = NoneVal THEN {}
    ELSE IF sel.kind = "diffnu" THEN {sel.out[1].uc[i].pos : i \in DOMAIN sel.out[1].uc}
    ELSE {sel.out[1].pc[i].pos : i \in DOMAIN sel.out[1].pc}

\* the positions judge_diff reported, unpaired and paired
BedReported(list) == IF sel.out = NoneVal THEN {} ELSE {list[i].pos : i \in DOMAIN list}

\* C15: in a window that passes the cutoff test, a position outside the
\* constraint is reported for a condition if and only if border < |diff|
\* for the difference of that condition and neither the raw value nor the
\* difference is NaN; this in both selectors, whatever the other positions
\* of the window hold.
C15_ThresholdRule ==
    /\ (/\ sel.name = "create_bw_entries"
        /\ sel.kind # "raw"
        /\ nanmean_le(Slice(sel.raw, LocalCs, LocalCe + 1), sel.cutoff)) =>
           \A pos \in 0 .. Len(sel.raw) - 1 :
               ~(LocalCs <= pos /\ pos <= LocalCe) =>
                   (pos \in BwReported <=>
                        (sel.raw[pos + 1] # NaN /\ over_border(sel.border, sel.diff[pos + 1])))
    /\ (/\ sel.name = "judge_diff"
        /\ in_bounds(sel.noc, LocalCe)
        /\ raw_over_cutoff(sel.noc, LocalCe, sel.cutoff)) =>
           \A pos \in 0 .. Len(sel.noc) - 1 :
               ~(LocalCs <= pos /\ pos <= LocalCe) =>
                   /\ pos \in BedReported(IF sel.out = NoneVal THEN <<>> ELSE sel.out[1].u) <=>
                          (sel.noc[pos + 1] # NaN /\ over_border(sel.border[1], sel.uc[pos + 1]))
                   /\ pos \in BedReported(IF sel.out = NoneVal THEN <<>> ELSE sel.out[1].p) <=>
                          (sel.noc[pos + 1] # NaN /\ over_border(sel.border[1], sel.pc[pos + 1]))

\* C16: a selector reports records of a constrained condition for a window
\* only if the mean raw probability over the constraint cs..ce is <= cutoff.
C16_CutoffGating ==
    /\ (sel.name = "create_bw_entries" /\ sel.kind # "raw" /\ BwReported # {}) =>
           nanmean_le(Slice(sel.raw, LocalCs, LocalCe + 1), sel.cutoff)
    /\ (BedReturned /\ AllRecords(sel.out[1]) # {} /\ LocalCs >= 0) =>
           nanmean_le(Slice(sel.noc, LocalCs, LocalCe + 1), sel.cutoff)

---------------------------------------------------------------------------
(* The BigWig run: scan_input opens the tracks, the pool runs generate_bws *)
(* for every gene, writebws writes the results and removes empty tracks.   *)

MaxFiles == 2

\* the genes of the annotation, by their start
GeneCoords == <<1, 4>>

\* filepaths / bwlist: raw, unpaired and paired, forward and reverse
TrackOf(which, orient) ==
    (CASE which = "raw" -> 1 [] which = "uc" -> 3 [] which = "pc" -> 5)
        + (IF orient = "fw" THEN 0 ELSE 1)

\* equalize_lists: the shorter lists are filled up with None
equalize_lists(listoflists) ==
    LET max(a, b) == IF a > b THEN a ELSE b
        max_length == max(max(Len(listoflists[1]), Len(listoflists[2])),
                          Len(listoflists[3]))
        fill(list) == list \o [i \in 1 .. max_length - Len(list) |-> NoneVal]
    IN <<fill(listoflists[1]), fill(listoflists[2]), fill(listoflists[3])>>

\* generate_bws: the results of create_bw_entries for the files of the first
\* list that is not empty; None when an exception was caught (fails).  For
\* None in place of a file name create_bw_entries fails in os.path.basename
\* and returns None.
generate_bws(fails, filelist, gstrand, gs, ge, cutoff, border, ulim, padding) ==
    LET raw == filelist[1]
        up  == filelist[2]
        pa  == filelist[3]
        entries_of(file) ==
            IF file = NoneVal THEN NoneVal
            ELSE create_bw_entries(file[1].kind, gstrand, gs, ge, file[1].cons,
                                   file[1].reg, cutoff, border, ulim, padding,
                                   file[1].raw, file[1].diff).out
        of(list) == [i \in DOMAIN list |-> entries_of(list[i])]
    IN IF fails THEN NoneVal
       ELSE Some(IF raw # <<>> THEN of(raw)
                 ELSE IF up # <<>> THEN of(up)
                 ELSE IF pa # <<>> THEN of(pa)
                 ELSE <<>>)

RECURSIVE units_of(_)
\* writebws: the results in the order of the loops `for entry in outlist`,
\* `for out in entry`; a gene without a result stands for itself
units_of(outlist) ==
    IF outlist = <<>> THEN <<>>
    ELSE (IF Head(outlist) = NoneVal THEN <<NoneVal>> ELSE Head(outlist)[1])
             \o units_of(Tail(outlist))

\* writebws: listofbws[i].addEntries(...) for the entries of one kind
addEntries(w, which, out) ==
    LET i == TrackOf(which, out.orient)
    IN IF w.raised # "none" \/ out[which] = <<>> THEN w
       ELSE IF w.tracks[i].handle = "none"
       THEN [w EXCEPT !.raised = "AttributeError"]
       ELSE [w EXCEPT !.tracks[i].entries = @ \o out[which],
                      !.written = @ \cup {w.unit}]

\* writebws: the body of the inner loop for one result
write_unit(w, unit) ==
    IF w.raised # "none" THEN w
    ELSE IF unit = NoneVal THEN [w EXCEPT !.raised = "TypeError"]
    ELSE LET w0 == [w EXCEPT !.unit = @ + 1]
         IN addEntries(addEntries(addEntries(w0, "raw", unit[1]), "uc", unit[1]),
                       "pc", unit[1])

RECURSIVE write_units(_, _)
write_units(w, units) ==
    IF units = <<>> THEN w ELSE write_units(write_unit(w, Head(units)), Tail(units))

\* writebws: close every track, remove those without entries
close_tracks(tracks) ==
    [i \in DOMAIN tracks |->
        IF tracks[i].handle = "none" THEN tracks[i]
        ELSE [tracks[i] EXCEPT !.handle = "closed",
                               !.on_disk = tracks[i].entries # <<>>]]

\* writebws: any exception ends it, logged, before the tracks are closed
writebws(outlist, listofbws) ==
    LET w == write_units([tracks |-> listofbws, raised |-> "none", unit |-> 0,
                          written |-> {}],
                         units_of(outlist))
    IN IF w.raised # "none" THEN w ELSE [w EXCEPT !.tracks = close_tracks(w.tracks)]

\* the window files getfiles finds for a gene: raw files of one position
\* with and without a value above the border and of two positions, diff
\* files of one position
FileLists ==
    LET RawFiles ==
            {Some([kind |-> "raw", cons |-> <<0, 0>>, reg |-> <<0, 0>>, raw |-> <<c>>,
                   diff |-> <<>>]) : c \in {NaN, <<6>>}}
            \cup {Some([kind |-> "raw", cons |-> <<0, 0>>, reg |-> <<0, 0>>,
                        raw |-> << <<6>>, <<6>> >>, diff |-> <<>>])}
        DiffFile(kind) ==
            Some([kind |-> kind, cons |-> <<1, 1>>, reg |-> <<1, 1>>,
                  raw |-> << <<1>> >>, diff |-> << <<3>> >>])
    IN {<<raw, [i \in 1 .. nu |-> DiffFile("diffnu")],
          [i \in 1 .. np |-> DiffFile("diffnp")]>> :
           raw \in {[i \in 1 .. n |-> f] : n \in 0 .. MaxFiles, f \in RawFiles},
           nu \in {0, MaxFiles}, np \in {0, MaxFiles}}

\* scan_input up to the pool: the tracks asked for are opened and get their
\* header; without a name for the unconstrained files getfiles returns None
\* and equalize_lists fails on len(None) for the first gene, which ends
\* scan_input in its except branch
scan_input_open ==
    /\ run.phase = "none"
    /\ \E unconstrained \in BOOLEAN, unp \in BOOLEAN, pai \in BOOLEAN :
       LET opened(i) == \/ i \in {1, 2} /\ unconstrained
                        \/ i \in {3, 4} /\ unp
                        \/ i \in {5, 6} /\ pai
       IN run' = [phase |-> IF unconstrained THEN "pool" ELSE "logged",
                  tracks |-> [i \in 1 .. 6 |->
                                 [handle |-> IF opened(i) THEN "open" ELSE "none",
                                  entries |-> <<>>, on_disk |-> opened(i)]],
                  running |-> {}, done |-> {},
                  found |-> [g \in DOMAIN GeneCoords |-> <<0, 0, 0>>],
                  outlist |-> [g \in DOMAIN GeneCoords |-> NoneVal],
                  raised |-> IF unconstrained THEN "none" ELSE "TypeError",
                  written |-> {}]
    /\ UNCHANGED other_than_r

\* pool.starmap: a worker of the pool starts generate_bws for a gene
generate_bws_start ==
    /\ run.phase = "pool"
    /\ \E g \in DOMAIN GeneCoords \ (run.running \cup run.done) :
           run' = [run EXCEPT !.running = @ \cup {g}]
    /\ UNCHANGED other_than_r

\* the worker runs generate_bws for the files found for its gene and
\* returns its result
generate_bws_task ==
    /\ run.phase = "pool"
    /\ \E g \in run.running :
       \E fails \in BOOLEAN, gstrand \in Strands, files \in FileLists :
       \E r \in {generate_bws(fails, equalize_lists(files), gstrand, GeneCoords[g],
                              GeneEnd(GeneCoords[g]), 10, 3, 1, 1)} :
           \* cutoff 1.0, border 0.3, ulim 1, padding 1
           run' = [run EXCEPT !.running = @ \ {g}, !.done = @ \cup {g},
                              !.found[g] = <<Len(files[1]), Len(files[2]), Len(files[3])>>,
                              !.outlist[g] = r]
    /\ UNCHANGED other_than_r

\* A variant of pool_returned that does not wait for every result.
pool_returned_early == run.done # {}

\* pool.starmap returns the list of all results; pool.close(), pool.join()
pool_returned == run.done = DOMAIN GeneCoords

\* writebws(outlist, bwlist, filepaths), after the pool
call_writebws ==
    /\ run.phase = "pool"
    /\ pool_returned
    /\ \E w \in {writebws(run.outlist, run.tracks)} :
           run' = [run EXCEPT !.phase = "written", !.tracks = w.tracks,
                              !.raised = w.raised, !.written = w.written]
    /\ UNCHANGED other_than_r

\* scan_input returns: the handles that are still open are released
scan_input_return ==
    /\ run.phase \in {"written", "logged"}
    /\ run' = [run EXCEPT !.phase = "finished",
                          !.tracks = [i \in 1 .. 6 |->
                                         [run.tracks[i] EXCEPT
                                              !.handle = IF @ = "open" THEN "released"
                                                         ELSE @]]]
    /\ UNCHANGED other_than_r

\* the next run
NextRun ==
    /\ run.phase = "finished"
    /\ run' = [phase |-> "none"]
    /\ UNCHANGED other_than_r

NextBigWig ==
    \/ scan_input_open
    \/ generate_bws_start
    \/ generate_bws_task
    \/ call_writebws
    \/ scan_input_return
    \/ NextRun

SpecBigWig == Init /\ [][NextBigWig]_vars

\* the numbers of the results of the run that have entries for an opened
\* track, counted as writebws meets them
UnitsWithEntries ==
    LET units == units_of(run.outlist)
    IN {k \in DOMAIN units :
           /\ units[k] # NoneVal
           /\ \E which \in {"raw", "uc", "pc"} :
                  /\ units[k][1][which] # <<>>
                  /\ run.tracks[TrackOf(which, units[k][1].orient)].handle # "none"}

\* the number a result has for writebws, which counts the results it gets to
UnitNumber(k) ==
    Cardinality({j \in 1 .. k : units_of(run.outlist)[j] # NoneVal})

\* C18: when writebws has run, the entries of every gene and window that
\* was processed successfully are in their tracks, wherever a failed gene or
\* window is in the list of results.
C18_PartialFailure ==
    (run.phase \in {"written", "finished"} /\ run.done = DOMAIN GeneCoords) =>
        \A k \in UnitsWithEntries : UnitNumber(k) \in run.written

\* C19: when scan_input has finished, no opened track without entries is on
\* disk and no opened handle is still open.
C19_EmptyTrackCleanup ==
    run.phase = "finished" =>
        \A i \in 1 .. 6 :
            /\ ~(run.tracks[i].on_disk /\ run.tracks[i].entries = <<>>)
            /\ run.tracks[i].handle # "open"

---------------------------------------------------------------------------
(* The BED run: screen_genes hands every window to a pool worker, which    *)
(* runs judge_diff and, inside it, savelists.                              *)

MaxProcs == 2
MaxTasks == 2

Unpaired == "Collection_unpaired.bed.gz"
Paired == "Collection_paired.bed.gz"

\* the windows of the genes: two positions, the constraint on the first, the
\* raw values above the cutoff or NaN, the differences in the band or NaN
BedWindows ==
    {[noc |-> noc, uc |-> <<NaN, u>>, pc |-> <<NaN, p>>] :
        noc \in {<< <<6>>, <<6>> >>, << <<6>>, NaN >>}, u \in {NaN, <<5>>}, p \in {NaN, <<5>>}}

\* a worker process without a task
NoTask == [at |-> "idle", out |-> NoneVal, open |-> {}]

\* screen_genes, one gene of the loop: a gene without raw, paired or
\* unpaired files is skipped; else pool.apply_async(judge_diff, (raw[i],
\* u[i], p[i], ...)) for i in range(len(r)), which ends with an IndexError,
\* logged, at the end of a shorter list.  The value is the number of tasks
\* submitted.
submit_tasks(nr, nu, np) ==
    IF nr = 0 \/ nu = 0 \/ np = 0 THEN 0
    ELSE Min(nr, Min(nu, np))

\* screen_genes: the pool is created
screen_genes ==
    /\ bed.phase = "none"
    /\ \E procs \in 1 .. MaxProcs :
           bed' = [phase |-> "pool", procs |-> procs, queue |-> 0,
                   genes |-> 0, found |-> <<0, 0, 0>>, submitted |-> 0,
                   workers |-> [w \in 1 .. procs |-> NoTask],
                   files |-> [f \in {Unpaired, Paired} |-> 0]]
    /\ UNCHANGED other_than_b

\* screen_genes: the next gene of the annotation, with the files glob finds
\* for it; the pool runs the tasks as they are submitted
submit_gene ==
    /\ bed.phase = "pool"
    /\ bed.genes < Len(GeneCoords)
    /\ \E nr \in 0 .. MaxTasks, nu \in {0, 1, MaxTasks}, np \in {MaxTasks} :
           bed' = [bed EXCEPT !.genes = @ + 1, !.found = <<nr, nu, np>>,
                              !.submitted = submit_tasks(nr, nu, np),
                              !.queue = @ + submit_tasks(nr, nu, np)]
    /\ UNCHANGED other_than_b

\* a worker takes a window and runs judge_diff up to the call of savelists;
\* after an exception the task is over
worker_judge_diff ==
    /\ bed.phase = "pool"
    /\ bed.queue > 0
    /\ \E w \in 1 .. bed.procs, win \in BedWindows :
       \E r \in {judge_diff("+", 1, GeneEnd(1), <<3, 3>>, <<2, 3>>, 5, <<3, 8>>, 1,
                            win.noc, win.uc, win.pc)} :
           /\ bed.workers[w].at = "idle"
           /\ bed' = [bed EXCEPT !.queue = @ - 1,
                                 !.workers[w] =
                                     IF r.out = NoneVal THEN NoTask
                                     ELSE [at |-> "savelists", out |-> r.out, open |-> {}]]
    /\ UNCHANGED other_than_b

\* savelists: if len(out['u']) > 0: o = gzip.open(..., 'ab')
open_unpaired ==
    /\ bed.phase = "pool"
    /\ \E w \in 1 .. bed.procs :
           /\ bed.workers[w].at = "savelists"
           /\ bed' = [bed EXCEPT !.workers[w] =
                          IF Len(bed.workers[w].out[1].u) > 0
                          THEN [@ EXCEPT !.at = "write_u", !.open = {Unpaired}]
                          ELSE [@ EXCEPT !.at = "test_p"]]
    /\ UNCHANGED other_than_b

\* savelists: o.write(...) of the unpaired records
write_unpaired ==
    /\ bed.phase = "pool"
    /\ \E w \in 1 .. bed.procs :
           /\ bed.workers[w].at = "write_u"
           /\ bed' = [bed EXCEPT !.workers[w].at = "test_p", !.files[Unpaired] = @ + 1]
    /\ UNCHANGED other_than_b

\* savelists: if len(out['p']) > 0: o = gzip.open(..., 'ab'); the handle o
\* held before is dropped
open_paired ==
    /\ bed.phase = "pool"
    /\ \E w \in 1 .. bed.procs :
           /\ bed.workers[w].at = "test_p"
           /\ bed' = [bed EXCEPT !.workers[w] =
                          IF Len(bed.workers[w].out[1].p) > 0
                          THEN [@ EXCEPT !.at = "write_p", !.open = {Paired}]
                          ELSE [@ EXCEPT !.at = "return"]]
    /\ UNCHANGED other_than_b

\* savelists: o.write(...) of the paired records
write_paired ==
    /\ bed.phase = "pool"
    /\ \E w \in 1 .. bed.procs :
           /\ bed.workers[w].at = "write_p"
           /\ bed' = [bed EXCEPT !.workers[w].at = "return", !.files[Paired] = @ + 1]
    /\ UNCHANGED other_than_b

\* savelists and judge_diff return: the handle is dropped, the worker ends
\* (maxtasksperchild=1) and the pool starts another
worker_return ==
    /\ bed.phase = "pool"
    /\ \E w \in 1 .. bed.procs :
           /\ bed.workers[w].at = "return"
           /\ bed' = [bed EXCEPT !.workers[w] = NoTask]
    /\ UNCHANGED other_than_b

\* pool.close(); pool.join()
pool_join ==
    /\ bed.phase = "pool"
    /\ bed.genes = Len(GeneCoords)
    /\ bed.queue = 0
    /\ \A w \in 1 .. bed.procs : bed.workers[w].at = "idle"
    /\ bed' = [phase |-> "none"]
    /\ UNCHANGED other_than_b

NextBed ==
    \/ screen_genes
    \/ submit_gene
    \/ worker_judge_diff
    \/ open_unpaired
    \/ write_unpaired
    \/ open_paired
    \/ write_paired
    \/ worker_return
    \/ pool_join

SpecBed == Init /\ [][NextBed]_vars

\* C20: no two workers of the pool have the same output file open at the
\* same time.
C20_ExclusiveWriters ==
    bed.phase = "pool" =>
        \A w1, w2 \in 1 .. bed.procs :
            w1 # w2 => bed.workers[w1].open \cap bed.workers[w2].open = {}

---------------------------------------------------------------------------
(* Further properties of the selectors and of the runs.                    *)

\* C29: create_bw_entries ends in its 'lower than 0' error, without
\* entries, whenever cs, ce, ws or we is negative.
C29_NegativeRejected ==
    (/\ sel.name = "create_bw_entries"
     /\ (LocalCs < 0 \/ LocalCe < 0 \/ sel.reg[1] < 0 \/ sel.reg[2] < 0)) =>
        (sel.raised = "Exception" /\ sel.out = NoneVal)

\* C26: a track has entries, and writebws has run, only when every task
\* of the pool has returned and none is running; no step of the pool
\* changes a track.
C26_WriterAfterWorkers ==
    /\ []((run.phase # "none" /\
           (run.phase = "written" \/ \E i \in 1 .. 6 : run.tracks[i].entries # <<>>)) =>
              (run.running = {} /\ run.done = DOMAIN GeneCoords))
    /\ [][(run.phase = "pool" /\ run'.phase = "pool") => run'.tracks = run.tracks]_vars

\* C26 witness: writebws has written entries of a run with all results in
C26_Witness ==
    /\ run.phase = "written"
    /\ run.done = DOMAIN GeneCoords
    /\ \E i \in 1 .. 6 : run.tracks[i].entries # <<>>

\* C27: the entries of every track are in the order of their starts and no
\* two of them cover the same base.
C27_SortedEntries ==
    run.phase \in {"written", "finished"} =>
        \A i \in 1 .. 6 :
            \A j, k \in DOMAIN run.tracks[i].entries :
                j < k => run.tracks[i].entries[j].end <= run.tracks[i].entries[k].start

\* C28: for a gene with raw, diffnu and diffnp files generate_bws returns
\* one result for every file of the three lists.
C28_AllListsProcessed ==
    run.phase # "none" =>
        \A g \in run.done :
            (/\ run.outlist[g] # NoneVal
             /\ run.found[g][1] > 0 /\ run.found[g][2] > 0 /\ run.found[g][3] > 0) =>
                Len(run.outlist[g][1]) = run.found[g][1] + run.found[g][2] + run.found[g][3]

\* C21: for a gene with incomplete sets of window files (one set empty, or
\* the sets of different sizes) no task is run and no result is produced; for
\* a gene with complete sets every window is submitted (screen_genes).
C21_IncompleteGeneSkipped ==
    LET Complete(found) ==
            found[1] > 0 /\ found[1] = found[2] /\ found[2] = found[3]
    IN /\ (bed.phase = "pool" /\ bed.genes > 0) =>
              bed.submitted = IF Complete(bed.found) THEN bed.found[1] ELSE 0
       /\ run.phase # "none" =>
              \A g \in run.done :
                  (~Complete(run.found[g]) /\ run.outlist[g] # NoneVal) =>
                      run.outlist[g][1] = <<>>

\* C22: the normalized chromosome name has exactly one leading chr: a name
\* starting with chr is unchanged, a leading CHR is replaced by chr, any
\* other name gets chr prepended; read_chromsize then cuts the name to at
\* most 32 characters; normalizing a normalized name changes nothing.
C22_ChromNormalized ==
    LET chr == <<"c", "h", "r">>
        expected(name) ==
            IF Slice(name, 0, 3) = chr THEN name
            ELSE IF Slice(name, 0, 3) = <<"C", "H", "R">>
                 THEN chr \o Slice(name, 3, Len(name))
                 ELSE chr \o name
    IN /\ sel.name = "read_chromsize" =>
              /\ sel.raised = "none"
              /\ sel.out = Some(Slice(expected(sel.chrom), 0, Limit))
              /\ read_chromsize(sel.out[1], Limit).out = sel.out
       /\ sel.name = "create_bw_entries_chrom" =>
              /\ sel.raised = "none"
              /\ sel.out = Some(expected(sel.chrom))
              /\ bw_chrom(sel.out[1]) = sel.out[1]

\* C23: whenever "unconstrained" is stored, every other condition stored by
\* from_rnamediator_fold_compound has ddg = gibbs of "unconstrained" as it is
\* stored now - its own gibbs, and dnrg likewise with nrg.
C23_DeltasFollowUnconstrained ==
    (foldout # <<>> /\ "unconstrained" \in DOMAIN foldout[1]) =>
        \A c \in DOMAIN foldout[1] \ {"unconstrained"} :
            LET u == foldout[1]["unconstrained"]
                e == foldout[1][c]
            IN (u.gibbs # NoneVal /\ u.nrg # NoneVal /\ e.gibbs # NoneVal /\ e.nrg # NoneVal) =>
                   /\ e.ddg = Some(u.gibbs[1] - e.gibbs[1])
                   /\ e.dnrg = Some(u.nrg[1] - e.nrg[1])

\* C24: a windowed fold with constype 'mutate', a region [start, end) in
\* range and a replacement whose length is not end - start ends in an error,
\* and no sequence is handed to the engine.
C24_MismatchedReplacementRejected ==
    (Windowed /\ OneEntry /\ args.constype = "mutate"
        /\ InBounds(Len(args.sequence), TheEntry.start, TheEntry.end)
        /\ Len(args.consval) # TheEntry.end - TheEntry.start) =>
       raised # "none" /\ ~engine.called

\* C25: the region length a windowed entry point hands to the engine is at
\* most the window it hands to the engine (the window after the shrinking to
\* the sequence length).
C25_RegionWithinWindow ==
    (Windowed /\ engine.called) => engine.region <= engine.window

\* C30: api_rnafold without a FoldOutput, without a constraint or with one
\* constraint on a first region in range, raises nothing and returns a
\* FoldOutput that holds the folded condition; a FoldOutput holds accepted
\* condition names only.
C30_NewFoldOutputReturned ==
    /\ (call = "api_rnafold" /\ ~args.FoldOut /\ ~args.constraint.given) =>
           /\ raised = "none"
           /\ engine.called /\ engine.conditions = <<"unconstrained">>
    /\ (call = "api_rnafold" /\ ~args.FoldOut /\ OneEntry
            /\ TheEntry.mode \in FirstRegionModes
            /\ InBounds(Len(args.sequence), TheEntry.fstart, TheEntry.fend)) =>
           /\ raised = "none"
           /\ engine.called /\ Len(engine.conditions) = 1
    /\ foldout # <<>> => DOMAIN foldout[1] \subseteq FoldConditions

=============================================================================
